---- MODULE Spec2Model ----
(***************************************************************************)
(* A model of src/src/extensibility/ExtensionManager.js: the registry      *)
(* download protocol (downloadRegistry and its callbacks), the extensions  *)
(* map (registry side + install side) and the three pending-action sets.   *)
(***************************************************************************)
EXTENDS Integers, Sequences, FiniteSets, TLC

(***************************************************************************)
(* Values                                                                  *)
(***************************************************************************)

\* JavaScript null / undefined for object-valued slots.
NULL == [null |-> TRUE]

\* The extension ids of the model.
Ids == {"a", "b"}

\* Package.InstallationStatuses values that updateFromDownload accepts.
UpdateStatuses == {"ALREADY_INSTALLED", "NEEDS_UPDATE", "SAME_VERSION", "OLDER_VERSION"}

\* The installation statuses a download result is drawn from.
InstallationStatuses == UpdateStatuses \cup {"INSTALLED"}

\* The package file of a download of id ("" stands for no localPath).
PackagePath(id) == "/tmp/" \o id \o ".zip"

\* The installation results handed to updateFromDownload; keepFile "undefined"
\* is what a caller that does not set the field passes.
InstallationResults ==
    [name : Ids, installationStatus : InstallationStatuses,
     localPath : {"", "pkg"}, keepFile : {"undefined", "true", "false"}]

VARIABLES
    idsToRemove,     \* _idsToRemove: the ids marked for removal
    idsToUpdate,     \* _idsToUpdate: id -> installation result
    idsToDisable,    \* _idsToDisable: the ids marked for disabling
    extensions,      \* extensions: id -> [registryInfo, installInfo]
    packageOps,      \* Package.remove/enable/disable/installUpdate calls awaiting their callback
    batch,           \* the last removeMarkedExtensions/disableMarkedExtensions/updateExtensions call
    pendingDownloadRegistry, \* the flight whose deferred the variable holds, 0 for null
    flights,         \* flight -> its deferred and the position of each of its callbacks
    cacheFile,       \* the text in registry_cache.json, NULL when there is no file
    storedVersion,   \* localStorage[EXTENSION_REGISTRY_LOCAL_STORAGE_VERSION_KEY]
    serverVersion,   \* what the version endpoint answers; indexes Published
    bundledOk,       \* whether extensions/registry/registry.json can be fetched
    popularityAnswers, \* how many more requests the popularity endpoint answers
    lastOp,          \* the call or callback that ran last, with its outcome
    emitted,         \* the notifications triggered by the step that ran last
    unlinked         \* the files whose unlink the step that ran last requested

pendingVars == <<idsToRemove, idsToUpdate, idsToDisable>>
catalogVars == <<extensions, packageOps, batch>>
outVars == <<lastOp, emitted, unlinked>>
fetchVars == <<pendingDownloadRegistry, flights, cacheFile, storedVersion,
               serverVersion, bundledOk, popularityAnswers>>

(***************************************************************************)
(* Pending-action sets (lines 717-863)                                     *)
(***************************************************************************)

isMarkedForRemoval(id) == id \in idsToRemove

isMarkedForDisabling(id) == id \in idsToDisable

isMarkedForUpdate(id) == id \in DOMAIN idsToUpdate

hasExtensionsToRemove == idsToRemove # {}

hasExtensionsToDisable == idsToDisable # {}

hasExtensionsToUpdate == DOMAIN idsToUpdate # {}

\* A test that asks to delete the package file whatever keepFile says.
FileToUnlink_IgnoresKeepFile(installResult) ==
    IF installResult.localPath # "" THEN {PackagePath(installResult.name)} ELSE {}

\* The file a stored installation result asks to delete, if any.
FileToUnlink(installResult) ==
    IF installResult.localPath # "" /\ ~installResult.keepFile
    THEN {PackagePath(installResult.name)} ELSE {}

\* function f without key k (delete f[k])
Without(f, k) == [x \in DOMAIN f \ {k} |-> f[x]]

\* function f with f[k] = v (f[k] = v on a JavaScript object)
With(f, k, v) == [x \in DOMAIN f \cup {k} |-> IF x = k THEN v ELSE f[x]]

\* A markForRemoval whose unmarking drops every mark.
markForRemoval_UnmarksAll(id, mark) ==
    /\ idsToRemove' = IF mark THEN idsToRemove \cup {id} ELSE {}
    /\ emitted' = << <<"statusChange", id>> >>
    /\ unlinked' = {}
    /\ lastOp' = [op |-> "markForRemoval", id |-> id, arg |-> mark,
                  was |-> isMarkedForRemoval(id)]
    /\ UNCHANGED <<idsToUpdate, idsToDisable>>

markForRemoval(id, mark) ==
    /\ idsToRemove' = IF mark THEN idsToRemove \cup {id} ELSE idsToRemove \ {id}
    /\ emitted' = << <<"statusChange", id>> >>
    /\ unlinked' = {}
    /\ lastOp' = [op |-> "markForRemoval", id |-> id, arg |-> mark,
                  was |-> isMarkedForRemoval(id)]
    /\ UNCHANGED <<idsToUpdate, idsToDisable>>

unmarkAllForRemoval ==
    /\ idsToRemove' = {}
    /\ emitted' = <<>>
    /\ unlinked' = {}
    /\ lastOp' = [op |-> "unmarkAllForRemoval"]
    /\ UNCHANGED <<idsToUpdate, idsToDisable>>

markForDisabling(id, mark) ==
    /\ idsToDisable' = IF mark THEN idsToDisable \cup {id} ELSE idsToDisable \ {id}
    /\ emitted' = << <<"statusChange", id>> >>
    /\ unlinked' = {}
    /\ lastOp' = [op |-> "markForDisabling", id |-> id, arg |-> mark]
    /\ UNCHANGED <<idsToRemove, idsToUpdate>>

unmarkAllForDisabling ==
    /\ idsToDisable' = {}
    /\ emitted' = <<>>
    /\ unlinked' = {}
    /\ lastOp' = [op |-> "unmarkAllForDisabling"]
    /\ UNCHANGED <<idsToRemove, idsToUpdate>>

\* A test that takes every download for an update.
IsUpdateStatus_Any(installationStatus) == TRUE

\* Lines 820-823: the statuses that make a download an update.
IsUpdateStatus(installationStatus) == installationStatus \in UpdateStatuses

\* An updateFromDownload that leaves the removal mark in place.
updateFromDownload_KeepsRemoval(installationResult) ==
    LET stored == [installationResult EXCEPT
                     !.keepFile = (installationResult.keepFile = "true")]
        id == installationResult.name
    IN  /\ lastOp' = [op |-> "updateFromDownload", id |-> id,
                      arg |-> installationResult.installationStatus,
                      result |-> installationResult]
        /\ unlinked' = {}
        /\ IF IsUpdateStatus(installationResult.installationStatus)
           THEN /\ idsToUpdate' = With(idsToUpdate, id, stored)
                /\ emitted' = << <<"statusChange", id>> >>
           ELSE /\ emitted' = <<>>
                /\ UNCHANGED idsToUpdate
        /\ UNCHANGED <<idsToRemove, idsToDisable>>

\* An updateFromDownload that stores the update without a notification.
updateFromDownload_Silent(installationResult) ==
    LET stored == [installationResult EXCEPT
                     !.keepFile = (installationResult.keepFile = "true")]
        id == installationResult.name
    IN  /\ lastOp' = [op |-> "updateFromDownload", id |-> id,
                      arg |-> installationResult.installationStatus,
                      result |-> installationResult]
        /\ unlinked' = {}
        /\ emitted' = <<>>
        /\ IF IsUpdateStatus(installationResult.installationStatus)
           THEN /\ idsToRemove' = idsToRemove \ {id}
                /\ idsToUpdate' = With(idsToUpdate, id, stored)
           ELSE UNCHANGED <<idsToRemove, idsToUpdate>>
        /\ UNCHANGED idsToDisable

\* Lines 814-829.
updateFromDownload(installationResult) ==
    LET stored == [installationResult EXCEPT
                     !.keepFile = (installationResult.keepFile = "true")]
        id == installationResult.name
    IN  /\ lastOp' = [op |-> "updateFromDownload", id |-> id,
                      arg |-> installationResult.installationStatus,
                      result |-> installationResult]
        /\ unlinked' = {}
        /\ IF IsUpdateStatus(installationResult.installationStatus)
           THEN /\ idsToRemove' = idsToRemove \ {id}
                /\ idsToUpdate' = With(idsToUpdate, id, stored)
                /\ emitted' = << <<"statusChange", id>> >>
           ELSE /\ emitted' = <<>>
                /\ UNCHANGED <<idsToRemove, idsToUpdate>>
        /\ UNCHANGED idsToDisable

removeUpdate(id) ==
    /\ lastOp' = [op |-> "removeUpdate", id |-> id, arg |-> isMarkedForUpdate(id)]
    /\ IF ~isMarkedForUpdate(id)
       THEN /\ emitted' = <<>>
            /\ unlinked' = {}
            /\ UNCHANGED idsToUpdate
       ELSE /\ unlinked' = FileToUnlink(idsToUpdate[id])
            /\ idsToUpdate' = Without(idsToUpdate, id)
            /\ emitted' = << <<"statusChange", id>> >>
    /\ UNCHANGED <<idsToRemove, idsToDisable>>

\* A cleanupUpdates that keeps the updates whose file it did not delete.
cleanupUpdates_KeepsKept ==
    /\ unlinked' = UNION {FileToUnlink(idsToUpdate[id]) : id \in DOMAIN idsToUpdate}
    /\ idsToUpdate' = [id \in {x \in DOMAIN idsToUpdate : FileToUnlink(idsToUpdate[x]) = {}} |->
                          idsToUpdate[id]]
    /\ emitted' = <<>>
    /\ lastOp' = [op |-> "cleanupUpdates"]
    /\ UNCHANGED <<idsToRemove, idsToDisable>>

\* Lines 717-728.
cleanupUpdates ==
    /\ unlinked' = UNION {FileToUnlink(idsToUpdate[id]) : id \in DOMAIN idsToUpdate}
    /\ idsToUpdate' = <<>>
    /\ emitted' = <<>>
    /\ lastOp' = [op |-> "cleanupUpdates"]
    /\ UNCHANGED <<idsToRemove, idsToDisable>>

(***************************************************************************)
(* Semantic versions (thirdparty/semver.browser, as used at lines 186-194, *)
(* 545, 563 and 962)                                                       *)
(***************************************************************************)

\* A version is <<major, minor, patch>>.
semver_lt(v, w) ==
    \/ v[1] < w[1]
    \/ v[1] = w[1] /\ v[2] < w[2]
    \/ v[1] = w[1] /\ v[2] = w[2] /\ v[3] < w[3]

semver_gte(v, w) == ~semver_lt(v, w)

\* A partial version (1 to 3 components) with the missing components zero.
ZeroFill(bound) ==
    << bound[1],
       IF Len(bound) >= 2 THEN bound[2] ELSE 0,
       IF Len(bound) >= 3 THEN bound[3] ELSE 0 >>

\* The exclusive upper end of the tilde range ~bound.
TildeUpper(bound) ==
    IF Len(bound) = 1 THEN <<bound[1] + 1, 0, 0>> ELSE <<bound[1], bound[2] + 1, 0>>

\* A range is [op, bound] with op one of "<", "<=", ">", ">=", "=", "~".
semver_satisfies(v, range) ==
    LET b == ZeroFill(range.bound)
    IN  CASE range.op = "<"  -> semver_lt(v, b)
          [] range.op = "<=" -> ~semver_lt(b, v)
          [] range.op = ">"  -> semver_lt(b, v)
          [] range.op = ">=" -> semver_gte(v, b)
          [] range.op = "="  -> v = b
          [] range.op = "~"  -> semver_gte(v, b) /\ semver_lt(v, TildeUpper(range.bound))

\* brackets.metadata.apiVersion of the running host.
ApiVersion == <<1, 5, 0>>

(***************************************************************************)
(* The extensions map (lines 147, 169-253, 471-533, 627-695)               *)
(***************************************************************************)

\* obj.field of a JavaScript object, with absent (undefined) read as dflt.
Get(obj, field, dflt) == IF field \in DOMAIN obj THEN obj[field] ELSE dflt

\* Whether a slot holds an object (is truthy).
Present(x) == x # NULL

HasEntry(id) == id \in DOMAIN extensions

HasInstallInfo(id) == HasEntry(id) /\ Present(extensions[id].installInfo)

HasRegistryInfo(id) == HasEntry(id) /\ Present(extensions[id].registryInfo)

\* Line 192: the versions[] entries a host can run, by their "brackets" range.
VersionIsCompatible(versionInfo) ==
    \/ ~Present(Get(versionInfo, "brackets", NULL))
    \/ semver_satisfies(ApiVersion, versionInfo.brackets)

\* A search that stops at the first compatible version of the list.
FindLastCompatible_First(versions) ==
    LET hits == {i \in 1..Len(versions) : VersionIsCompatible(versions[i])}
    IN  IF hits = {} THEN 0 ELSE CHOOSE i \in hits : \A j \in hits : i <= j

\* _.findLast(versions, compatible): the index of the last compatible one, or 0.
FindLastCompatible(versions) ==
    LET hits == {i \in 1..Len(versions) : VersionIsCompatible(versions[i])}
    IN  IF hits = {} THEN 0 ELSE CHOOSE i \in hits : \A j \in hits : j <= i

\* A test that reports an update only to an entry not yet flagged.
UpdateIsAvailable_Once(installInfo, registryInfo) ==
    /\ "version" \in DOMAIN installInfo.metadata
    /\ semver_lt(installInfo.metadata.version, registryInfo.metadata.version)
    /\ ~Get(installInfo, "updateAvailable", FALSE)

\* Line 186: the installed version is older than the registry's.
UpdateIsAvailable(installInfo, registryInfo) ==
    /\ "version" \in DOMAIN installInfo.metadata
    /\ semver_lt(installInfo.metadata.version, registryInfo.metadata.version)

\* A synchronizeEntry that does not begin by taking the flags for false.
SynchronizedEntry_KeepsFlags(entry) ==
    LET ii0 == [f \in DOMAIN entry.installInfo \cup {"owner", "updateAvailable", "updateCompatible"} |->
                  CASE f = "owner" -> entry.registryInfo.owner
                    [] f = "updateAvailable" -> Get(entry.installInfo, "updateAvailable", FALSE)
                    [] f = "updateCompatible" -> Get(entry.installInfo, "updateCompatible", FALSE)
                    [] OTHER -> entry.installInfo[f]]
        ri0 == [f \in DOMAIN entry.registryInfo \cup {"updateAvailable", "updateCompatible"} |->
                  CASE f = "updateAvailable" -> Get(entry.registryInfo, "updateAvailable", FALSE)
                    [] f = "updateCompatible" -> Get(entry.registryInfo, "updateCompatible", FALSE)
                    [] OTHER -> entry.registryInfo[f]]
        avail == UpdateIsAvailable(entry.installInfo, entry.registryInfo)
        last == FindLastCompatible(entry.registryInfo.versions)
        compat == /\ avail
                  /\ last # 0
                  /\ semver_lt(entry.installInfo.metadata.version,
                               entry.registryInfo.versions[last].version)
        ii1 == IF avail THEN [ii0 EXCEPT !.updateAvailable = TRUE] ELSE ii0
        ri1 == IF avail THEN [ri0 EXCEPT !.updateAvailable = TRUE] ELSE ri0
        lastVersion == entry.registryInfo.versions[last].version
        ii2 == IF compat
               THEN With([ii1 EXCEPT !.updateCompatible = TRUE], "lastCompatibleVersion", lastVersion)
               ELSE ii1
        ri2 == IF compat
               THEN With([ri1 EXCEPT !.updateCompatible = TRUE], "lastCompatibleVersion", lastVersion)
               ELSE ri1
    IN  [registryInfo |-> ri2, installInfo |-> ii2]

\* synchronizeEntry on an entry with both sides: the entry it leaves.
SynchronizedEntry(entry) ==
    LET ii0 == [f \in DOMAIN entry.installInfo \cup {"owner", "updateAvailable", "updateCompatible"} |->
                  CASE f = "owner" -> entry.registryInfo.owner
                    [] f = "updateAvailable" -> FALSE
                    [] f = "updateCompatible" -> FALSE
                    [] OTHER -> entry.installInfo[f]]
        ri0 == [f \in DOMAIN entry.registryInfo \cup {"updateAvailable", "updateCompatible"} |->
                  CASE f = "updateAvailable" -> FALSE
                    [] f = "updateCompatible" -> FALSE
                    [] OTHER -> entry.registryInfo[f]]
        avail == UpdateIsAvailable(entry.installInfo, entry.registryInfo)
        last == FindLastCompatible(entry.registryInfo.versions)
        compat == /\ avail
                  /\ last # 0
                  /\ semver_lt(entry.installInfo.metadata.version,
                               entry.registryInfo.versions[last].version)
        ii1 == IF avail THEN [ii0 EXCEPT !.updateAvailable = TRUE] ELSE ii0
        ri1 == IF avail THEN [ri0 EXCEPT !.updateAvailable = TRUE] ELSE ri0
        lastVersion == entry.registryInfo.versions[last].version
        ii2 == IF compat
               THEN With([ii1 EXCEPT !.updateCompatible = TRUE], "lastCompatibleVersion", lastVersion)
               ELSE ii1
        ri2 == IF compat
               THEN With([ri1 EXCEPT !.updateCompatible = TRUE], "lastCompatibleVersion", lastVersion)
               ELSE ri1
    IN  [registryInfo |-> ri2, installInfo |-> ii2]

\* Line 173: synchronizeEntry acts only on an entry with both sides.
NeedsSynchronize(exts, id) ==
    /\ id \in DOMAIN exts
    /\ Present(exts[id].installInfo)
    /\ Present(exts[id].registryInfo)

\* synchronizeEntry(id) on the map exts: the map it leaves.
synchronizeEntry(exts, id) ==
    IF NeedsSynchronize(exts, id)
    THEN [exts EXCEPT ![id] = SynchronizedEntry(exts[id])]
    ELSE exts

\* A synchronizeEntry that triggers registryUpdate whatever the entry.
synchronizeEvents_Always(exts, id) == << <<"registryUpdate", id>> >>

\* The notifications synchronizeEntry(id) triggers on the map exts.
synchronizeEvents(exts, id) ==
    IF NeedsSynchronize(exts, id) THEN << <<"registryUpdate", id>> >> ELSE <<>>

\* A call of synchronizeEntry(id) as a step of its own.
synchronizeEntryCall(id) ==
    /\ extensions' = synchronizeEntry(extensions, id)
    /\ emitted' = synchronizeEvents(extensions, id)
    /\ unlinked' = {}
    /\ lastOp' = [op |-> "synchronizeEntry", id |-> id]
    /\ UNCHANGED <<packageOps, batch>>

\* Lines 246-249: the entry of id after registry[id] became its registryInfo.
WithRegistryInfo(exts, id, info) ==
    IF id \in DOMAIN exts
    THEN [exts EXCEPT ![id].registryInfo = info]
    ELSE With(exts, id, [registryInfo |-> info, installInfo |-> NULL])

\* The ids of a set in the order Object.keys lists them.
RECURSIVE KeysInOrder(_)
KeysInOrder(S) ==
    IF S = {} THEN <<>>
    ELSE LET k == CHOOSE x \in S : \A y \in S : x = y \/ (x = "a" /\ y = "b")
         IN  <<k>> \o KeysInOrder(S \ {k})

\* _populateExtensions(registry): the map after the loop over the keys.
RECURSIVE PopulatedFrom(_, _, _)
PopulatedFrom(exts, registry, keys) ==
    IF keys = <<>> THEN exts
    ELSE PopulatedFrom(synchronizeEntry(WithRegistryInfo(exts, Head(keys), registry[Head(keys)]),
                                        Head(keys)),
                       registry, Tail(keys))

\* A population that takes the registry side away from the ids the registry
\* does not list.
populateExtensions_Replacing(exts, registry) ==
    LET cleared == [id \in DOMAIN exts |->
                      IF id \in DOMAIN registry THEN exts[id]
                      ELSE [exts[id] EXCEPT !.registryInfo = NULL]]
    IN  PopulatedFrom(cleared, registry, KeysInOrder(DOMAIN registry))

populateExtensions(exts, registry) ==
    PopulatedFrom(exts, registry, KeysInOrder(DOMAIN registry))

\* The notifications of _populateExtensions(registry), in order.
RECURSIVE PopulateEventsFrom(_, _, _)
PopulateEventsFrom(exts, registry, keys) ==
    IF keys = <<>> THEN << <<"registryDownload">> >>
    ELSE LET e1 == WithRegistryInfo(exts, Head(keys), registry[Head(keys)])
         IN  synchronizeEvents(e1, Head(keys))
               \o PopulateEventsFrom(synchronizeEntry(e1, Head(keys)), registry, Tail(keys))

populateEvents(exts, registry) ==
    PopulateEventsFrom(exts, registry, KeysInOrder(DOMAIN registry))

\* Lines 481-497: the location type of an extension loaded from under `parent`.
LocationType(parent) ==
    CASE parent = "dev" -> "dev"
      [] parent = "default" -> "default"
      [] parent = "user" -> "user"
      [] OTHER -> "unknown"

\* Line 505: the status an extension gets from the event that reported it.
LoadStatus(eventType) ==
    IF eventType = "loadFailed" THEN "startFailed"
    ELSE IF eventType = "disabled" THEN "disabled" ELSE "enabled"

\* Lines 498-506: the map after setData stored the install side of id.
WithInstallInfo(exts, id, info) ==
    IF id \in DOMAIN exts
    THEN [exts EXCEPT ![id].installInfo = info]
    ELSE With(exts, id, [registryInfo |-> NULL, installInfo |-> info])

\* _handleExtensionLoad: an extension with this metadata was loaded from
\* <parent>/<id>; metadata without a version is a legacy extension's.
handleExtensionLoad(eventType, parent, metadata) ==
    LET id == metadata.name
        info == [metadata |-> metadata, path |-> parent \o "/" \o id,
                 locationType |-> LocationType(parent), status |-> LoadStatus(eventType)]
        e1 == WithInstallInfo(extensions, id, info)
    IN  /\ extensions' = synchronizeEntry(e1, id)
        /\ emitted' = synchronizeEvents(e1, id) \o << <<"statusChange", id>> >>
        /\ unlinked' = {}
        /\ lastOp' = [op |-> "load", id |-> id]
        /\ UNCHANGED <<packageOps, batch>>

\* Async.doInParallel_aggregateErrors(items, beginProcessItem): every item is
\* begun at the call; the promise settles when the last item has settled,
\* resolved when none failed and else rejected with one {item, error} record
\* for each item that failed.
SettledBatch(b) ==
    IF b.waiting # {} THEN b
    ELSE [b EXCEPT !.promise = IF b.errors = {} THEN "resolved" ELSE "rejected"]

\* The aggregate of kind `kind` waits for the item id.
BatchWaitsFor(b, kind, id) ==
    /\ b # NULL
    /\ b.kind = kind
    /\ id \in b.waiting

\* The aggregate after the promise of the item id resolved.
BatchAfterDone(b, kind, id) ==
    IF BatchWaitsFor(b, kind, id)
    THEN SettledBatch([b EXCEPT !.waiting = @ \ {id}, !.succeeded = @ \cup {id}])
    ELSE b

\* The aggregate after the promise of the item id was rejected with error.
BatchAfterFail(b, kind, id, error) ==
    IF BatchWaitsFor(b, kind, id)
    THEN SettledBatch([b EXCEPT !.waiting = @ \ {id},
                                !.errors = @ \cup {[item |-> id, error |-> error]}])
    ELSE b

\* The aggregate right after the call began every item: the items whose
\* promise is pending, and the errors of those already rejected.
BegunBatch(kind, items, pendingItems, errors, args) ==
    SettledBatch([kind |-> kind, items |-> items, args |-> args, waiting |-> pendingItems,
                  succeeded |-> {},
                  errors |-> errors,
                  promise |-> "pending"])

\* A test that takes every id for an installed one.
IsInstalled_Always(id) == TRUE

\* Line 629 and line 658: the id has an install side.
IsInstalled(id) == HasInstallInfo(id)

\* StringUtils.format(Strings.EXTENSION_NOT_INSTALLED, id)
NotInstalledError(id) == "EXTENSION_NOT_INSTALLED: " \o id

\* The error items of the ids a commit found not installed.
NotInstalledErrors(ids) == {[item |-> id, error |-> NotInstalledError(id)] : id \in ids}

\* remove(id): rejects at once, or calls Package.remove and waits.
remove(id) ==
    /\ [kind |-> "remove", id |-> id] \notin packageOps
    /\ IF IsInstalled(id)
       THEN /\ packageOps' = packageOps \cup {[kind |-> "remove", id |-> id]}
            /\ lastOp' = [op |-> "remove", id |-> id, result |-> "pending"]
       ELSE /\ lastOp' = [op |-> "remove", id |-> id, result |-> "rejected",
                          error |-> NotInstalledError(id)]
            /\ UNCHANGED <<packageOps, batch>>
    /\ emitted' = <<>>
    /\ unlinked' = {}
    /\ UNCHANGED <<extensions, batch>>

\* A remove that deletes the entry it leaves without either side.
AfterRemove_Deleting(exts, id) ==
    IF Present(exts[id].registryInfo)
    THEN [exts EXCEPT ![id].installInfo = NULL]
    ELSE Without(exts, id)

\* Lines 631-635: the map after Package.remove succeeded for id.
AfterRemove(exts, id) == [exts EXCEPT ![id].installInfo = NULL]

\* A done handler that forgets the notification.
removeDone_Silent(id) ==
    /\ [kind |-> "remove", id |-> id] \in packageOps
    /\ packageOps' = packageOps \ {[kind |-> "remove", id |-> id]}
    /\ batch' = BatchAfterDone(batch, "remove", id)
    /\ extensions' = AfterRemove(extensions, id)
    /\ lastOp' = [op |-> "remove.done", id |-> id, result |-> "resolved"]
    /\ emitted' = <<>>
    /\ unlinked' = {}

\* Package.remove(...).done
removeDone(id) ==
    /\ [kind |-> "remove", id |-> id] \in packageOps
    /\ packageOps' = packageOps \ {[kind |-> "remove", id |-> id]}
    /\ batch' = BatchAfterDone(batch, "remove", id)
    /\ extensions' = AfterRemove(extensions, id)
    /\ lastOp' = [op |-> "remove.done", id |-> id, result |-> "resolved"]
    /\ emitted' = << <<"statusChange", id>> >>
    /\ unlinked' = {}

\* Package.remove(...).fail
removeFail(id) ==
    /\ [kind |-> "remove", id |-> id] \in packageOps
    /\ packageOps' = packageOps \ {[kind |-> "remove", id |-> id]}
    /\ batch' = BatchAfterFail(batch, "remove", id, "PACKAGE_ERROR")
    /\ lastOp' = [op |-> "remove.fail", id |-> id, result |-> "rejected",
                  error |-> "PACKAGE_ERROR"]
    /\ emitted' = <<>>
    /\ unlinked' = {}
    /\ UNCHANGED extensions

\* The name of the Package function _enableOrDisable calls (line 659).
EnableKind(enable) == IF enable THEN "enable" ELSE "disable"

\* _enableOrDisable(id, enable): rejects at once, or calls Package.enable or
\* Package.disable and waits.
enableOrDisable(id, enable) ==
    LET kind == EnableKind(enable)
    IN  /\ [kind |-> kind, id |-> id] \notin packageOps
        /\ IF IsInstalled(id)
           THEN /\ packageOps' = packageOps \cup {[kind |-> kind, id |-> id]}
                /\ lastOp' = [op |-> kind, id |-> id, result |-> "pending"]
           ELSE /\ lastOp' = [op |-> kind, id |-> id, result |-> "rejected",
                              error |-> NotInstalledError(id)]
                /\ UNCHANGED <<packageOps, batch>>
        /\ emitted' = <<>>
        /\ unlinked' = {}
        /\ UNCHANGED <<extensions, batch>>

\* Lines 661-662: the entry after Package.enable or Package.disable succeeded.
AfterEnableOrDisable(exts, id, enable) ==
    [exts EXCEPT ![id].installInfo.status = IF enable THEN "enabled" ELSE "disabled",
                 ![id].installInfo.metadata =
                     With(exts[id].installInfo.metadata, "disabled", ~enable)]

\* Package.enable/disable(...).done; when the install side was taken away in
\* the meantime, line 661 throws and the promise is left pending.
enableOrDisableDone(id, enable) ==
    LET kind == EnableKind(enable)
    IN  /\ [kind |-> kind, id |-> id] \in packageOps
        /\ packageOps' = packageOps \ {[kind |-> kind, id |-> id]}
        /\ unlinked' = {}
        /\ IF HasInstallInfo(id)
           THEN /\ extensions' = AfterEnableOrDisable(extensions, id, enable)
                /\ lastOp' = [op |-> kind \o ".done", id |-> id, result |-> "resolved"]
                /\ emitted' = << <<"statusChange", id>> >>
                /\ batch' = BatchAfterDone(batch, kind, id)
           ELSE /\ lastOp' = [op |-> kind \o ".done", id |-> id, result |-> "threw"]
                /\ emitted' = <<>>
                /\ UNCHANGED <<extensions, batch>>

\* Package.enable/disable(...).fail
enableOrDisableFail(id, enable) ==
    LET kind == EnableKind(enable)
    IN  /\ [kind |-> kind, id |-> id] \in packageOps
        /\ packageOps' = packageOps \ {[kind |-> kind, id |-> id]}
        /\ lastOp' = [op |-> kind \o ".fail", id |-> id, result |-> "rejected",
                      error |-> "PACKAGE_ERROR"]
        /\ batch' = BatchAfterFail(batch, kind, id, "PACKAGE_ERROR")
        /\ emitted' = <<>>
        /\ unlinked' = {}
        /\ UNCHANGED extensions

\* disable(id), line 682
disable(id) == enableOrDisable(id, FALSE)

\* enable(id), line 693
enable(id) == enableOrDisable(id, TRUE)

(***************************************************************************)
(* The commits of the pending sets (lines 705-711, 872-915)                *)
(***************************************************************************)

\* The Package calls of one kind for a set of ids.
PackageCalls(kind, ids) == {[kind |-> kind, id |-> id] : id \in ids}

\* A removeMarkedExtensions that passes over the ids that are not installed.
removeMarkedExtensions_InstalledOnly ==
    LET calling == {id \in idsToRemove : IsInstalled(id)}
    IN  /\ packageOps' = packageOps \cup PackageCalls("remove", calling)
        /\ batch' = BegunBatch("remove", calling, calling, {}, <<>>)
        /\ lastOp' = [op |-> "removeMarkedExtensions"]
        /\ emitted' = <<>>
        /\ unlinked' = {}
        /\ UNCHANGED <<extensions, idsToRemove, idsToUpdate, idsToDisable>>

\* removeMarkedExtensions: remove(id) for every key of _idsToRemove.
removeMarkedExtensions ==
    LET items == idsToRemove
        calling == {id \in items : IsInstalled(id)}
    IN  /\ packageOps' = packageOps \cup PackageCalls("remove", calling)
        /\ batch' = BegunBatch("remove", items, calling, NotInstalledErrors(items \ calling), <<>>)
        /\ lastOp' = [op |-> "removeMarkedExtensions"]
        /\ emitted' = <<>>
        /\ unlinked' = {}
        /\ UNCHANGED <<extensions, idsToRemove, idsToUpdate, idsToDisable>>

\* A disableMarkedExtensions that empties the set it has committed.
disableMarkedExtensions_Clearing ==
    LET items == idsToDisable
        calling == {id \in items : IsInstalled(id)}
    IN  /\ packageOps' = packageOps \cup PackageCalls("disable", calling)
        /\ batch' = BegunBatch("disable", items, calling, NotInstalledErrors(items \ calling), <<>>)
        /\ lastOp' = [op |-> "disableMarkedExtensions"]
        /\ emitted' = <<>>
        /\ unlinked' = {}
        /\ idsToDisable' = {}
        /\ UNCHANGED <<extensions, idsToRemove, idsToUpdate>>

\* disableMarkedExtensions: disable(id) for every key of _idsToDisable.
disableMarkedExtensions ==
    LET items == idsToDisable
        calling == {id \in items : IsInstalled(id)}
    IN  /\ packageOps' = packageOps \cup PackageCalls("disable", calling)
        /\ batch' = BegunBatch("disable", items, calling, NotInstalledErrors(items \ calling), <<>>)
        /\ lastOp' = [op |-> "disableMarkedExtensions"]
        /\ emitted' = <<>>
        /\ unlinked' = {}
        /\ UNCHANGED <<extensions, idsToRemove, idsToUpdate, idsToDisable>>

\* updateExtensions: update(name, localPath, keepFile) for every key of
\* _idsToUpdate; update calls Package.installUpdate whatever the id.
updateExtensions ==
    LET items == DOMAIN idsToUpdate
    IN  /\ packageOps' = packageOps \cup PackageCalls("update", items)
        /\ batch' = BegunBatch("update", items, items, {}, idsToUpdate)
        /\ lastOp' = [op |-> "updateExtensions"]
        /\ emitted' = <<>>
        /\ unlinked' = {}
        /\ UNCHANGED <<extensions, idsToRemove, idsToUpdate, idsToDisable>>

\* Lines 706-710: Package.installUpdate(...).done of the update of id.
updateDone(id) ==
    /\ [kind |-> "update", id |-> id] \in packageOps
    /\ packageOps' = packageOps \ {[kind |-> "update", id |-> id]}
    /\ unlinked' = IF batch.args[id].keepFile THEN {} ELSE {batch.args[id].localPath}
    /\ batch' = BatchAfterDone(batch, "update", id)
    /\ lastOp' = [op |-> "update.done", id |-> id, result |-> "resolved"]
    /\ emitted' = <<>>
    /\ UNCHANGED extensions

\* Package.installUpdate(...) failed.
updateFail(id) ==
    /\ [kind |-> "update", id |-> id] \in packageOps
    /\ packageOps' = packageOps \ {[kind |-> "update", id |-> id]}
    /\ unlinked' = {}
    /\ batch' = BatchAfterFail(batch, "update", id, "PACKAGE_ERROR")
    /\ lastOp' = [op |-> "update.fail", id |-> id, result |-> "rejected",
                  error |-> "PACKAGE_ERROR"]
    /\ emitted' = <<>>
    /\ UNCHANGED extensions

(***************************************************************************)
(* Registry payloads                                                       *)
(***************************************************************************)

VersionInfo(version, range) == [version |-> version, brackets |-> range]

Range(op, bound) == [op |-> op, bound |-> bound]

\* One registry record: metadata (with the newest version), owner, versions.
RegistryEntry(id, owner, versions, nodeIsRequired) ==
    [metadata |-> [name |-> id, version |-> versions[Len(versions)].version,
                   nodeIsRequired |-> nodeIsRequired],
     owner |-> owner,
     versions |-> versions]

EntryA1 == RegistryEntry("a", "github:one", << VersionInfo(<<1, 0, 0>>, Range("<", <<2, 0, 0>>)) >>, FALSE)

EntryA2 ==
    RegistryEntry("a", "github:one",
                  << VersionInfo(<<1, 0, 0>>, Range("<", <<2, 0, 0>>)),
                     VersionInfo(<<1, 2, 0>>, NULL),
                     VersionInfo(<<2, 0, 0>>, Range(">=", <<2, 0, 0>>)) >>, FALSE)

EntryB1 == RegistryEntry("b", "github:two", << VersionInfo(<<2, 0, 0>>, Range(">=", <<2>>)) >>, FALSE)

EntryBNode == RegistryEntry("b", "github:two", << VersionInfo(<<1, 0, 0>>, NULL) >>, TRUE)

\* The registries of the model: id -> registry record.
Registry1 == [x \in {"a"} |-> EntryA1]

Registry2 == [x \in {"a", "b"} |-> IF x = "a" THEN EntryA2 ELSE EntryBNode]

Registry3 == [x \in {"b"} |-> EntryB1]

Registry4 == [x \in {"a", "b"} |-> IF x = "a" THEN EntryA2 ELSE EntryB1]

Registries == {Registry1, Registry2, Registry3}

\* The package.json metadata an extension load reports; the one without a
\* version is what deduceMetadata builds for a legacy extension.
LoadMetadata ==
    [name : Ids, version : {<<1, 0, 0>>, <<2, 0, 0>>}] \cup [name : Ids]

LoadParents == {"user"}

LoadEvents == {"load", "loadFailed", "disabled"}

\* The registry the server serves at each version of the version endpoint.
Published == <<Registry1, Registry2, Registry4>>

\* A record of "a" that needs node.
EntryANode == RegistryEntry("a", "github:one", << VersionInfo(<<1, 0, 0>>, NULL) >>, TRUE)

\* The snapshot shipped as extensions/registry/registry.json: "a" needs node
\* in it, "b" does not.
BundledRegistry == [x \in {"a", "b"} |-> IF x = "a" THEN EntryANode ELSE EntryB1]

\* Responses of the popularity endpoint: id -> counts (0 is "no count").
Popularities ==
    { [x \in {"a", "b"} |-> [totalDownloads |-> 5, gihubStars |-> 0]] }

(***************************************************************************)
(* getCompatibilityInfo (lines 542-608)                                    *)
(***************************************************************************)

\* Line 543: extVersion.brackets || (extVersion.engines && extVersion.engines.brackets)
RequiredVersion(extVersion) ==
    LET direct == Get(extVersion, "brackets", NULL)
        engines == Get(extVersion, "engines", NULL)
    IN  IF Present(direct) THEN direct
        ELSE IF Present(engines) THEN Get(engines, "brackets", NULL) ELSE NULL

\* requiredVersion.charAt(0) of a range written with this operator.
FirstChar(range) ==
    CASE range.op \in {"<", "<="} -> "<"
      [] range.op \in {">", ">="} -> ">"
      [] range.op = "~" -> "~"
      [] OTHER -> "="

\* A getCompatibilityInfoForVersion that takes every unsatisfied tilde range
\* as asking for a newer host.
getCompatibilityInfoForVersion_TildeNewer(extVersion, apiVersion) ==
    LET requiredVersion == RequiredVersion(extVersion)
        isCompatible == \/ ~Present(requiredVersion)
                        \/ semver_satisfies(apiVersion, requiredVersion)
        result == [isCompatible |-> isCompatible]
    IN  IF isCompatible
        THEN With(result, "compatibleVersion", extVersion.version)
        ELSE CASE FirstChar(requiredVersion) = "<" -> With(result, "requiresNewer", FALSE)
               [] FirstChar(requiredVersion) = ">" -> With(result, "requiresNewer", TRUE)
               [] FirstChar(requiredVersion) = "~" -> With(result, "requiresNewer", TRUE)
               [] OTHER -> result

\* Lines 542-567.
getCompatibilityInfoForVersion(extVersion, apiVersion) ==
    LET requiredVersion == RequiredVersion(extVersion)
        isCompatible == \/ ~Present(requiredVersion)
                        \/ semver_satisfies(apiVersion, requiredVersion)
        result == [isCompatible |-> isCompatible]
    IN  IF isCompatible
        THEN With(result, "compatibleVersion", extVersion.version)
        ELSE CASE FirstChar(requiredVersion) = "<" -> With(result, "requiresNewer", FALSE)
               [] FirstChar(requiredVersion) = ">" -> With(result, "requiresNewer", TRUE)
               [] FirstChar(requiredVersion) = "~" ->
                     With(result, "requiresNewer",
                          semver_lt(apiVersion, ZeroFill(requiredVersion.bound)))
               [] OTHER -> result

\* A scan of the earlier versions that starts from the oldest.
RECURSIVE EarlierCompatible_OldestFirst(_, _, _)
EarlierCompatible_OldestFirst(versions, i, apiVersion) ==
    LET hits == {k \in 1..i : getCompatibilityInfoForVersion(versions[k], apiVersion).isCompatible}
    IN  IF hits = {} THEN 0 ELSE CHOOSE k \in hits : \A j \in hits : k <= j

\* Lines 596-603: the loop for (i--; i >= 0; i--) from index i downwards;
\* the index of the version it returns for, 0 when it falls through.
RECURSIVE EarlierCompatible(_, _, _)
EarlierCompatible(versions, i, apiVersion) ==
    IF i < 1 THEN 0
    ELSE IF getCompatibilityInfoForVersion(versions[i], apiVersion).isCompatible THEN i
    ELSE EarlierCompatible(versions, i - 1, apiVersion)

\* A getCompatibilityInfo whose result for an earlier version keeps what was
\* computed for that version.
getCompatibilityInfo_Recomputed(entry, apiVersion) ==
    LET versions == Get(entry, "versions", <<>>)
    IN  IF "versions" \notin DOMAIN entry
        THEN LET fallback == getCompatibilityInfoForVersion(entry.metadata, apiVersion)
             IN  IF fallback.isCompatible THEN With(fallback, "isLatestVersion", TRUE)
                 ELSE fallback
        ELSE IF Len(versions) = 0 THEN [threw |-> "TypeError"]
        ELSE LET latestInfo == getCompatibilityInfoForVersion(versions[Len(versions)], apiVersion)
                 i == EarlierCompatible(versions, Len(versions) - 1, apiVersion)
             IN  IF latestInfo.isCompatible THEN With(latestInfo, "isLatestVersion", TRUE)
                 ELSE IF i = 0 THEN latestInfo
                 ELSE With(getCompatibilityInfoForVersion(versions[i], apiVersion),
                           "isLatestVersion", FALSE)

\* The result of getCompatibilityInfo(entry, apiVersion); an empty versions
\* list makes line 589 read a property of undefined.
getCompatibilityInfo(entry, apiVersion) ==
    LET versions == Get(entry, "versions", <<>>)
    IN  IF "versions" \notin DOMAIN entry
        THEN LET fallback == getCompatibilityInfoForVersion(entry.metadata, apiVersion)
             IN  IF fallback.isCompatible THEN With(fallback, "isLatestVersion", TRUE)
                 ELSE fallback
        ELSE IF Len(versions) = 0 THEN [threw |-> "TypeError"]
        ELSE LET latestInfo == getCompatibilityInfoForVersion(versions[Len(versions)], apiVersion)
                 i == EarlierCompatible(versions, Len(versions) - 1, apiVersion)
                 compatInfo == With(getCompatibilityInfoForVersion(versions[i], apiVersion),
                                    "isLatestVersion", FALSE)
             IN  IF latestInfo.isCompatible THEN With(latestInfo, "isLatestVersion", TRUE)
                 ELSE IF i = 0 THEN latestInfo
                 ELSE IF "requiresNewer" \in DOMAIN latestInfo
                      THEN With(compatInfo, "requiresNewer", latestInfo.requiresNewer)
                      ELSE compatInfo

\* A call of getCompatibilityInfo: nothing but the result changes.
getCompatibilityInfoCall(entry, apiVersion) ==
    /\ lastOp' = [op |-> "getCompatibilityInfo", entry |-> entry, apiVersion |-> apiVersion,
                  result |-> getCompatibilityInfo(entry, apiVersion)]
    /\ emitted' = <<>>
    /\ unlinked' = {}

(***************************************************************************)
(* The registry cache, the stored version and the filter (lines 55-98,     *)
(* 255-340)                                                                *)
(***************************************************************************)

\* JSON.stringify of a registry that came from JSON: the text that encodes
\* it; JSON.parse gives back the registry a text encodes.
JSON_stringify(value) == [json |-> value]

JSON_parse(text) == text.json

\* FileUtils.writeText on the cache file: a write that succeeds replaces the
\* whole content, one that fails leaves it.
WriteText(file, text, ok) == IF ok THEN text ELSE file

\* Phoenix.isNativeApp: the model's host is the browser build.
IsNativeApp == FALSE

\* Numbers as JavaScript values that may also be undefined or NaN.
Num(n) == [n |-> n]

UNDEFINED == [undefined |-> TRUE]

NaN == [nan |-> TRUE]

\* String(value), as localStorage.setItem stores it.
StoredString(value) ==
    IF value = UNDEFINED THEN [str |-> "undefined"] ELSE [str |-> "int", n |-> value.n]

\* parseInt of a stored string.
ParseInt(s) == IF s.str = "int" THEN Num(s.n) ELSE NaN

\* a !== b on numbers.
StrictNotEqual(a, b) == a = NaN \/ b = NaN \/ a # b

\* Line 257: localStorage.getItem(VERSION_KEY) || "1".
CurrentRegistryVersion ==
    IF Present(storedVersion) THEN storedVersion ELSE [str |-> "int", n |-> 1]

\* A version check that always asks for a download.
VersionDiffers_Always(remote, currentRegistryVersion) == TRUE

\* Line 266: the version check asks for a download.
VersionDiffers(remote, currentRegistryVersion) ==
    StrictNotEqual(remote, ParseInt(currentRegistryVersion))

\* A filter that drops nothing.
IsFilteredOut_Never(registryEntry) == FALSE

\* Lines 330-336: the entry is dropped from the registry.
IsFilteredOut(registryEntry) ==
    /\ Get(registryEntry.metadata, "nodeIsRequired", FALSE)
    /\ ~IsNativeApp

filterIncompatibleEntries(registry) ==
    [id \in {k \in DOMAIN registry : ~IsFilteredOut(registry[k])} |-> registry[id]]

\* a || b || null on counts, with 0 for a falsy count and <<>> for null.
FirstCount(a, b) == IF a # 0 THEN <<a>> ELSE IF b # <<>> THEN b ELSE <<>>

\* Lines 306-313: the cached registry with the popularity counts merged in.
patchedRegistry(registry, popularity) ==
    [id \in DOMAIN registry |->
       IF id \in DOMAIN popularity
       THEN With(With(registry[id], "totalDownloads",
                      FirstCount(popularity[id].totalDownloads,
                                 Get(registry[id], "totalDownloads", <<>>))),
                 "gihubStars",
                 FirstCount(popularity[id].gihubStars,
                            Get(registry[id], "gihubStars", <<>>)))
       ELSE registry[id]]

(***************************************************************************)
(* downloadRegistry (lines 361-462)                                        *)
(***************************************************************************)

\* The number of downloadRegistry calls that may start a flight.
MaxFlights == 2

Flights == 1..MaxFlights

\* A flight that was not started: its deferred and where each of the
\* callbacks it starts stands.
IdleFlight ==
    [started |-> FALSE, force |-> FALSE, cleanStart |-> FALSE,
     promise |-> "pending", alreadyResolvedFromCache |-> FALSE,
     cache |-> "none", registryJson |-> NULL, timer |-> "none", local |-> "none",
     check |-> "none", currentRegistryVersion |-> NULL, remote |-> NULL,
     download |-> "none", newVersion |-> NULL, registry |-> NULL,
     patch |-> "none", patched |-> NULL,
     nRegistryDownload |-> 0]

\* Every callback the flight started has run.
FlightQuiescent(f) ==
    /\ flights[f].cache # "reading"
    /\ flights[f].timer # "scheduled"
    /\ flights[f].local # "loading"
    /\ flights[f].check \notin {"inflight", "rereadSame", "rereadFail"}
    /\ flights[f].download \notin {"inflight", "writing"}
    /\ flights[f].patch \in {"none", "done"}

\* The next flight to start, 0 when the model's flights are used up.
NextFlight ==
    IF \A f \in Flights : flights[f].started THEN 0
    ELSE CHOOSE f \in Flights : ~flights[f].started /\ \A g \in 1..(f - 1) : flights[g].started

\* deferred.resolve() / deferred.reject() on the deferred of flight p.
Resolved(fl, p) ==
    IF fl[p].promise = "pending" THEN [fl EXCEPT ![p].promise = "resolved"] ELSE fl

Rejected(fl, p) ==
    IF fl[p].promise = "pending" THEN [fl EXCEPT ![p].promise = "rejected"] ELSE fl

\* A downloadRegistry that forgets to look at the pending download.
CanStartFlight_Always == TRUE

\* Line 362: no download is pending, so the call starts one.
CanStartFlight == pendingDownloadRegistry = 0

\* _updateRegistry(newVersion) called for flight f: the download request goes out.
UpdateRegistryStarted(fl, f, newVersion) ==
    [fl EXCEPT ![f].download = "inflight", ![f].newVersion = newVersion]

fetchFrame == /\ unlinked' = {}
              /\ UNCHANGED <<idsToRemove, idsToUpdate, idsToDisable, packageOps, batch, bundledOk>>

\* downloadRegistry(force): returns the pending promise, or starts a flight.
downloadRegistry(force) ==
    /\ IF CanStartFlight
       THEN LET f == NextFlight
                fl == [flights EXCEPT ![f].started = TRUE, ![f].force = force,
                          ![f].cleanStart = \A g \in Flights : FlightQuiescent(g)]
            IN  /\ f # 0
                /\ pendingDownloadRegistry' = f
                /\ flights' = IF force THEN UpdateRegistryStarted(fl, f, UNDEFINED)
                              ELSE [fl EXCEPT ![f].cache = "reading"]
                /\ lastOp' = [op |-> "downloadRegistry", started |-> TRUE]
       ELSE /\ lastOp' = [op |-> "downloadRegistry", started |-> FALSE]
            /\ UNCHANGED <<pendingDownloadRegistry, flights>>
    /\ emitted' = <<>>
    /\ UNCHANGED <<extensions, cacheFile, storedVersion, serverVersion, popularityAnswers>>
    /\ fetchFrame

\* Lines 425-459: _getCachedRegistry() answered the flight's first read.
\* answered: the popularity endpoint will answer the request of the
\* _patchDownloadCounts pass started here. A pass whose request fails
\* reads the cache once and changes nothing, so it is left out.
\* registryJson: what _getCachedRegistry resolved with, NULL for null.
cacheRead(f, answered, registryJson) ==
    /\ flights[f].cache = "reading"
    /\ answered => popularityAnswers > 0
    /\ LET hit == Present(registryJson)
           p == pendingDownloadRegistry
           \* line 437 on a null pendingDownloadRegistry throws: the rest is skipped
           threw == hit /\ p = 0
           f1 == [flights EXCEPT ![f].cache = IF hit THEN "hit" ELSE "miss",
                                 ![f].registryJson = registryJson,
                                 ![f].timer = IF hit THEN "scheduled" ELSE "none",
                                 ![f].local = IF hit THEN "none" ELSE "loading"]
           f2 == IF hit /\ p # 0 THEN [f1 EXCEPT ![p].alreadyResolvedFromCache = TRUE] ELSE f1
           f3 == IF threw THEN f2
                 ELSE [f2 EXCEPT ![f].check = "inflight",
                                 ![f].currentRegistryVersion = CurrentRegistryVersion,
                                 ![f].patch = IF answered THEN "read1" ELSE "none"]
       IN  /\ flights' = f3
           /\ popularityAnswers' = IF answered /\ ~threw THEN popularityAnswers - 1
                                   ELSE popularityAnswers
    /\ lastOp' = [op |-> "callback"]
    /\ emitted' = <<>>
    /\ UNCHANGED <<pendingDownloadRegistry, extensions, cacheFile, storedVersion,
                   serverVersion>>
    /\ fetchFrame

\* Lines 69-80: readAsText gave the text of the file (NULL when there is no
\* file), or failed although the file is there and null was resolved.
cacheReadDone(f, answered) == cacheRead(f, answered, cacheFile)

cacheReadFail(f, answered) == cacheFile # NULL /\ cacheRead(f, answered, NULL)

\* Lines 430-436: the setTimeout(0) callback that presents the cached registry.
timerFired(f) ==
    /\ flights[f].timer = "scheduled"
    /\ LET registry == filterIncompatibleEntries(JSON_parse(flights[f].registryJson))
           p == pendingDownloadRegistry
           f1 == [flights EXCEPT ![f].timer = IF p = 0 THEN "threw" ELSE "fired",
                                 ![f].nRegistryDownload = @ + 1]
       IN  /\ extensions' = populateExtensions(extensions, registry)
           /\ emitted' = populateEvents(extensions, registry)
           /\ flights' = IF p = 0 THEN f1 ELSE Resolved(f1, p)
           /\ lastOp' = [op |-> "callback"]
    /\ UNCHANGED <<pendingDownloadRegistry, cacheFile, storedVersion, serverVersion, popularityAnswers>>
    /\ fetchFrame

\* Lines 440-443: the bundled registry is used by the deferred now pending.
LocalRegistryUsable(p) ==
    /\ bundledOk
    /\ p # 0
    /\ ~flights[p].alreadyResolvedFromCache

\* A bundled-registry load that also stores what it shows as the cache of
\* version 1.
localLoaded_Persisting(f) ==
    /\ flights[f].local = "loading"
    /\ LET p == pendingDownloadRegistry
           registry == filterIncompatibleEntries(BundledRegistry)
       IN  IF LocalRegistryUsable(p)
           THEN /\ extensions' = populateExtensions(extensions, registry)
                /\ emitted' = populateEvents(extensions, registry)
                /\ flights' = [Resolved(flights, p) EXCEPT
                                 ![p].alreadyResolvedFromCache = TRUE,
                                 ![f].local = "applied",
                                 ![f].nRegistryDownload = @ + 1]
                /\ cacheFile' = JSON_stringify(registry)
                /\ storedVersion' = StoredString(Num(1))
                /\ lastOp' = [op |-> "callback"]
           ELSE /\ flights' = [flights EXCEPT ![f].local = "skipped"]
                /\ emitted' = <<>>
                /\ lastOp' = [op |-> "callback"]
                /\ UNCHANGED <<extensions, cacheFile, storedVersion>>
    /\ UNCHANGED <<pendingDownloadRegistry, serverVersion, popularityAnswers>>
    /\ fetchFrame

\* Lines 439-450: _getLocalRegistry() answered.
localLoaded(f) ==
    /\ flights[f].local = "loading"
    /\ LET p == pendingDownloadRegistry
           registry == filterIncompatibleEntries(BundledRegistry)
       IN  IF LocalRegistryUsable(p)
           THEN /\ extensions' = populateExtensions(extensions, registry)
                /\ emitted' = populateEvents(extensions, registry)
                /\ flights' = [Resolved(flights, p) EXCEPT
                                 ![p].alreadyResolvedFromCache = TRUE,
                                 ![f].local = "applied",
                                 ![f].nRegistryDownload = @ + 1]
                /\ lastOp' = [op |-> "callback"]
           ELSE /\ flights' = [flights EXCEPT ![f].local = "skipped"]
                /\ emitted' = <<>>
                /\ lastOp' = [op |-> "callback"]
                /\ UNCHANGED extensions
    /\ UNCHANGED <<pendingDownloadRegistry, cacheFile, storedVersion, serverVersion, popularityAnswers>>
    /\ fetchFrame

\* Lines 265-279: the version endpoint answered.
versionCheckDone(f) ==
    /\ flights[f].check = "inflight"
    /\ LET remote == Num(serverVersion)
           f1 == [flights EXCEPT ![f].remote = remote]
       IN  flights' = IF VersionDiffers(remote, flights[f].currentRegistryVersion)
                      THEN UpdateRegistryStarted([f1 EXCEPT ![f].check = "update"], f, remote)
                      ELSE [f1 EXCEPT ![f].check = "rereadSame"]
    /\ lastOp' = [op |-> "callback"]
    /\ emitted' = <<>>
    /\ UNCHANGED <<pendingDownloadRegistry, extensions, cacheFile, storedVersion,
                   serverVersion, popularityAnswers>>
    /\ fetchFrame

\* Lines 280-290: the version request failed.
versionCheckFail(f) ==
    /\ flights[f].check = "inflight"
    /\ flights' = [flights EXCEPT ![f].check = "rereadFail"]
    /\ lastOp' = [op |-> "callback"]
    /\ emitted' = <<>>
    /\ UNCHANGED <<pendingDownloadRegistry, extensions, cacheFile, storedVersion,
                   serverVersion, popularityAnswers>>
    /\ fetchFrame

\* Lines 269-277 and 282-289: the cache read made after the version answer.
versionReread(f, registryJson) ==
    /\ flights[f].check \in {"rereadSame", "rereadFail"}
    /\ flights' = IF Present(registryJson)
                  THEN [flights EXCEPT ![f].check = "skipped"]
                  ELSE UpdateRegistryStarted(
                         [flights EXCEPT ![f].check = "update"], f,
                         IF flights[f].check = "rereadSame" THEN flights[f].remote ELSE Num(1))
    /\ lastOp' = [op |-> "callback"]
    /\ emitted' = <<>>
    /\ UNCHANGED <<pendingDownloadRegistry, extensions, cacheFile, storedVersion,
                   serverVersion, popularityAnswers>>
    /\ fetchFrame

versionRereadDone(f) == versionReread(f, cacheFile)

versionRereadFail(f) == cacheFile # NULL /\ versionReread(f, NULL)

\* A download handler that leaves the stored version alone.
downloadDone_Unversioned(f) ==
    /\ flights[f].download = "inflight"
    /\ flights' = [flights EXCEPT ![f].download = "writing",
                      ![f].registry = filterIncompatibleEntries(Published[serverVersion])]
    /\ lastOp' = [op |-> "callback"]
    /\ emitted' = <<>>
    /\ UNCHANGED <<pendingDownloadRegistry, extensions, cacheFile, serverVersion,
                   storedVersion, popularityAnswers>>
    /\ fetchFrame

\* Lines 376-379: the registry arrived; its version is stored and the cache
\* write starts.
downloadDone(f) ==
    /\ flights[f].download = "inflight"
    /\ flights' = [flights EXCEPT ![f].download = "writing",
                      ![f].registry = filterIncompatibleEntries(Published[serverVersion])]
    /\ storedVersion' = StoredString(flights[f].newVersion)
    /\ lastOp' = [op |-> "callback"]
    /\ emitted' = <<>>
    /\ UNCHANGED <<pendingDownloadRegistry, extensions, cacheFile, serverVersion, popularityAnswers>>
    /\ fetchFrame

\* A download that is never shown, and one that is shown even after the
\* cached registry was.
DownloadSurfaces_Never(p) == FALSE

DownloadSurfaces_Always(p) == p # 0

\* Line 380: the downloaded registry is shown by the deferred now pending.
DownloadSurfaces(p) == p # 0 /\ ~flights[p].alreadyResolvedFromCache

\* The registry text with the records of `registry` laid over the records
\* the text already holds, property by property.
MergedText(file, registry) ==
    LET old == IF Present(file) THEN JSON_parse(file) ELSE <<>>
    IN  JSON_stringify(
          [id \in DOMAIN old \cup DOMAIN registry |->
             IF id \notin DOMAIN registry THEN old[id]
             ELSE IF id \notin DOMAIN old THEN registry[id]
             ELSE [k \in DOMAIN old[id] \cup DOMAIN registry[id] |->
                     IF k \in DOMAIN registry[id] THEN registry[id][k] ELSE old[id][k]]])

\* A cache write that patches the file instead of replacing it.
cacheWritten_Merging(f, ok) ==
    /\ flights[f].download = "writing"
    /\ LET p == pendingDownloadRegistry
           registry == flights[f].registry
           f1 == [flights EXCEPT ![f].download = "done"]
       IN  /\ cacheFile' = WriteText(cacheFile, MergedText(cacheFile, registry), ok)
           /\ IF DownloadSurfaces(p)
              THEN /\ extensions' = populateExtensions(extensions, registry)
                   /\ emitted' = populateEvents(extensions, registry)
                   /\ flights' = [Resolved(f1, p) EXCEPT
                                    ![p].alreadyResolvedFromCache = TRUE,
                                    ![f].nRegistryDownload = @ + 1]
              ELSE /\ flights' = f1
                   /\ emitted' = <<>>
                   /\ UNCHANGED extensions
           /\ lastOp' = [op |-> "callback", written |-> ok]
    /\ pendingDownloadRegistry' = 0
    /\ UNCHANGED <<storedVersion, serverVersion, popularityAnswers>>
    /\ fetchFrame

\* A cache write whose failure rejects the promise and shows nothing.
cacheWritten_FailRejects(f, ok) ==
    /\ flights[f].download = "writing"
    /\ LET p == pendingDownloadRegistry
           registry == flights[f].registry
           f1 == [flights EXCEPT ![f].download = "done"]
       IN  /\ cacheFile' = WriteText(cacheFile, JSON_stringify(registry), ok)
           /\ IF DownloadSurfaces(p) /\ ok
              THEN /\ extensions' = populateExtensions(extensions, registry)
                   /\ emitted' = populateEvents(extensions, registry)
                   /\ flights' = [Resolved(f1, p) EXCEPT
                                    ![p].alreadyResolvedFromCache = TRUE,
                                    ![f].nRegistryDownload = @ + 1]
              ELSE /\ flights' = IF DownloadSurfaces(p) THEN Rejected(f1, p) ELSE f1
                   /\ emitted' = <<>>
                   /\ UNCHANGED extensions
           /\ lastOp' = [op |-> "callback", written |-> ok]
    /\ pendingDownloadRegistry' = 0
    /\ UNCHANGED <<storedVersion, serverVersion, popularityAnswers>>
    /\ fetchFrame

\* Lines 379-388: _putCachedRegistry settled (ok: the file was written).
cacheWritten(f, ok) ==
    /\ flights[f].download = "writing"
    /\ LET p == pendingDownloadRegistry
           registry == flights[f].registry
           f1 == [flights EXCEPT ![f].download = "done"]
       IN  /\ cacheFile' = WriteText(cacheFile, JSON_stringify(registry), ok)
           /\ IF DownloadSurfaces(p)
              THEN /\ extensions' = populateExtensions(extensions, registry)
                   /\ emitted' = populateEvents(extensions, registry)
                   /\ flights' = [Resolved(f1, p) EXCEPT
                                    ![p].alreadyResolvedFromCache = TRUE,
                                    ![f].nRegistryDownload = @ + 1]
              ELSE /\ flights' = f1
                   /\ emitted' = <<>>
                   /\ UNCHANGED extensions
           /\ lastOp' = [op |-> "callback", written |-> ok]
    /\ pendingDownloadRegistry' = 0
    /\ UNCHANGED <<storedVersion, serverVersion, popularityAnswers>>
    /\ fetchFrame

\* Lines 390-397: the registry download failed.
downloadFail(f) ==
    /\ flights[f].download = "inflight"
    /\ LET p == pendingDownloadRegistry
           f1 == [flights EXCEPT ![f].download = "failed"]
       IN  /\ flights' = IF DownloadSurfaces(p) THEN Rejected(f1, p) ELSE f1
           /\ lastOp' = [op |-> "callback"]
    /\ pendingDownloadRegistry' = 0
    /\ emitted' = <<>>
    /\ UNCHANGED <<extensions, cacheFile, storedVersion, serverVersion, popularityAnswers>>
    /\ fetchFrame

\* Lines 295-298: the first cache read of _patchDownloadCounts.
patchReadDone(f) ==
    /\ flights[f].patch = "read1"
    /\ flights' = [flights EXCEPT ![f].patch = IF Present(cacheFile) THEN "ajax" ELSE "done"]
    /\ lastOp' = [op |-> "callback"]
    /\ emitted' = <<>>
    /\ UNCHANGED <<pendingDownloadRegistry, extensions, cacheFile, storedVersion,
                   serverVersion, popularityAnswers>>
    /\ fetchFrame

\* Lines 303-314: the popularity endpoint answered and the cache was read
\* again; the patched registry is written out. (The answer changes nothing
\* until that read completes, so the two are one step.)
popularityDone(f, popularity) ==
    /\ flights[f].patch = "ajax"
    /\ flights' = IF Present(cacheFile)
                  THEN [flights EXCEPT ![f].patch = "write",
                           ![f].patched =
                              JSON_stringify(patchedRegistry(JSON_parse(cacheFile), popularity))]
                  ELSE [flights EXCEPT ![f].patch = "done"]
    /\ lastOp' = [op |-> "callback"]
    /\ emitted' = <<>>
    /\ UNCHANGED <<pendingDownloadRegistry, extensions, cacheFile, storedVersion,
                   serverVersion, popularityAnswers>>
    /\ fetchFrame

\* Line 314: the write of the patched registry settled.
patchWritten(f, ok) ==
    /\ flights[f].patch = "write"
    /\ flights' = [flights EXCEPT ![f].patch = "done", ![f].patched = NULL]
    /\ cacheFile' = WriteText(cacheFile, flights[f].patched, ok)
    /\ lastOp' = [op |-> "callback", written |-> ok]
    /\ emitted' = <<>>
    /\ UNCHANGED <<pendingDownloadRegistry, extensions, storedVersion, serverVersion, popularityAnswers>>
    /\ fetchFrame

\* The registry's maintainers publish the next registry version.
publishRegistry ==
    /\ serverVersion < Len(Published)
    /\ serverVersion' = serverVersion + 1
    /\ lastOp' = [op |-> "callback"]
    /\ emitted' = <<>>
    /\ UNCHANGED <<pendingDownloadRegistry, flights, extensions, cacheFile, storedVersion,
                   popularityAnswers>>
    /\ fetchFrame

(***************************************************************************)
(* The pending-action sets on their own                                    *)
(***************************************************************************)

InitPendingSets ==
    /\ idsToRemove = {}
    /\ idsToUpdate = <<>>
    /\ idsToDisable = {}

InitOut ==
    /\ lastOp = [op |-> "init"]
    /\ emitted = <<>>
    /\ unlinked = {}

InitCatalogEmpty ==
    /\ extensions = <<>>
    /\ packageOps = {}
    /\ batch = NULL

\* No registry was fetched and none is being fetched.
InitFetchIdle ==
    /\ pendingDownloadRegistry = 0
    /\ flights = [f \in Flights |-> IdleFlight]
    /\ cacheFile = NULL
    /\ storedVersion = NULL
    /\ serverVersion = 1
    /\ bundledOk = TRUE
    /\ popularityAnswers = 0

InitPending == InitPendingSets /\ InitOut /\ InitCatalogEmpty /\ InitFetchIdle

NextPending ==
    \/ \E id \in Ids, mark \in BOOLEAN : markForRemoval(id, mark) /\ UNCHANGED <<catalogVars, fetchVars>>
    \/ unmarkAllForRemoval /\ UNCHANGED <<catalogVars, fetchVars>>
    \/ \E id \in Ids, mark \in BOOLEAN : markForDisabling(id, mark) /\ UNCHANGED <<catalogVars, fetchVars>>
    \/ unmarkAllForDisabling /\ UNCHANGED <<catalogVars, fetchVars>>
    \/ \E r \in InstallationResults : updateFromDownload(r) /\ UNCHANGED <<catalogVars, fetchVars>>
    \/ \E id \in Ids : removeUpdate(id) /\ UNCHANGED <<catalogVars, fetchVars>>
    \/ cleanupUpdates /\ UNCHANGED <<catalogVars, fetchVars>>

vars == <<idsToRemove, idsToUpdate, idsToDisable, extensions, packageOps, batch,
          pendingDownloadRegistry, flights, cacheFile, storedVersion,
          serverVersion, bundledOk, popularityAnswers, lastOp, emitted, unlinked>>

SpecPending == InitPending /\ [][NextPending]_vars

(***************************************************************************)
(* The extensions map on its own: registry populations, extension loads    *)
(* and remove calls                                                        *)
(***************************************************************************)

InitCatalog == InitPendingSets /\ InitOut /\ InitCatalogEmpty /\ InitFetchIdle

\* _populateExtensions(registry) as a step of its own.
PopulateExtensions(registry) ==
    /\ extensions' = populateExtensions(extensions, registry)
    /\ emitted' = populateEvents(extensions, registry)
    /\ unlinked' = {}
    /\ lastOp' = [op |-> "populate", registry |-> registry]
    /\ UNCHANGED <<packageOps, batch>>

NextCatalog ==
    \/ \E registry \in Registries : PopulateExtensions(registry) /\ UNCHANGED <<pendingVars, fetchVars>>
    \/ \E e \in LoadEvents, p \in LoadParents, m \in LoadMetadata :
         handleExtensionLoad(e, p, m) /\ UNCHANGED <<pendingVars, fetchVars>>
    \/ \E id \in Ids : remove(id) /\ UNCHANGED <<pendingVars, fetchVars>>
    \/ \E id \in Ids : removeDone(id) /\ UNCHANGED <<pendingVars, fetchVars>>
    \/ \E id \in Ids : removeFail(id) /\ UNCHANGED <<pendingVars, fetchVars>>

SpecCatalog == InitCatalog /\ [][NextCatalog]_vars

(***************************************************************************)
(* synchronizeEntry on maps of every shape: ids that are unknown, entries  *)
(* with one side, with none, and with both sides as _populateExtensions    *)
(* and _handleExtensionLoad leave them right before they call it           *)
(***************************************************************************)

\* A registry record of "a" whose newest version gives its range under
\* engines.brackets.
EntryAEngines ==
    RegistryEntry("a", "github:one",
                  << VersionInfo(<<1, 0, 0>>, NULL),
                     [version |-> <<2, 0, 0>>,
                      engines |-> [brackets |-> Range(">=", <<2, 0, 0>>)]] >>, FALSE)

\* The id has no entry.
ABSENT == [absent |-> TRUE]

\* The registry sides and the install sides an entry of id may have.
SyncRegistrySides(id) ==
    IF id = "a" THEN {NULL, EntryA1, EntryA2, EntryAEngines} ELSE {NULL, EntryB1, EntryBNode}

SyncInstallSides(id) ==
    {NULL} \cup { [metadata |-> m, path |-> "user/" \o id, locationType |-> "user",
                   status |-> "enabled"] : m \in {x \in LoadMetadata : x.name = id} }

SyncEntries(id) ==
    {ABSENT} \cup [registryInfo : SyncRegistrySides(id), installInfo : SyncInstallSides(id)]

\* The map with the entry ea for "a" and eb for "b".
SyncMap(ea, eb) ==
    [id \in {x \in Ids : IF x = "a" THEN ea # ABSENT ELSE eb # ABSENT} |->
        IF id = "a" THEN ea ELSE eb]

InitSynchronize ==
    /\ InitPendingSets
    /\ InitOut
    /\ InitFetchIdle
    /\ packageOps = {}
    /\ batch = NULL
    /\ \E ea \in SyncEntries("a"), eb \in SyncEntries("b") : extensions = SyncMap(ea, eb)

NextSynchronize ==
    \E id \in Ids : synchronizeEntryCall(id) /\ UNCHANGED <<pendingVars, fetchVars>>

SpecSynchronize == InitSynchronize /\ [][NextSynchronize]_vars

(***************************************************************************)
(* getAvailableUpdates and cleanAvailableUpdates (lines 924-968) on the    *)
(* maps of the section above                                               *)
(***************************************************************************)

\* Lines 926-938: the items pushed for the ids of keys, in their order.
RECURSIVE AvailableUpdatesFrom(_, _)
AvailableUpdatesFrom(exts, keys) ==
    IF keys = <<>> THEN <<>>
    ELSE LET id == Head(keys)
             info == exts[id]
             rest == AvailableUpdatesFrom(exts, Tail(keys))
         IN  IF ~Present(info.installInfo) \/ ~Present(info.registryInfo) THEN rest
             ELSE IF Get(info.registryInfo, "updateCompatible", FALSE)
                  THEN << [id |-> id,
                           installVersion |-> info.installInfo.metadata.version,
                           registryVersion |-> info.registryInfo.lastCompatibleVersion] >> \o rest
                  ELSE rest

getAvailableUpdates(exts) == AvailableUpdatesFrom(exts, KeysInOrder(DOMAIN exts))

\* Lines 954-966: one round of the reduce. semver.lt throws a TypeError on
\* a version that is not a string, and the reduce ends with it.
CleanStep(exts, acc, updateInfo) ==
    IF acc.threw # "" THEN acc
    ELSE IF updateInfo.id \notin DOMAIN exts THEN acc
    ELSE IF ~Present(exts[updateInfo.id].installInfo) THEN acc
    ELSE LET metadata == exts[updateInfo.id].installInfo.metadata
         IN  IF "version" \notin DOMAIN metadata THEN [acc EXCEPT !.threw = "TypeError"]
             ELSE IF semver_lt(metadata.version, updateInfo.registryVersion)
                  THEN [acc EXCEPT !.list = Append(acc.list, updateInfo)]
                  ELSE acc

RECURSIVE CleanFrom(_, _, _)
CleanFrom(exts, acc, updates) ==
    IF updates = <<>> THEN acc
    ELSE CleanFrom(exts, CleanStep(exts, acc, Head(updates)), Tail(updates))

\* cleanAvailableUpdates(updates): the list it returns, or what it threw.
cleanAvailableUpdates(exts, updates) == CleanFrom(exts, [threw |-> "", list |-> <<>>], updates)

getAvailableUpdatesCall ==
    /\ lastOp' = [op |-> "getAvailableUpdates", result |-> getAvailableUpdates(extensions)]
    /\ emitted' = <<>>
    /\ unlinked' = {}
    /\ UNCHANGED catalogVars

cleanAvailableUpdatesCall(updates) ==
    /\ lastOp' = [op |-> "cleanAvailableUpdates", updates |-> updates,
                  result |-> cleanAvailableUpdates(extensions, updates)]
    /\ emitted' = <<>>
    /\ unlinked' = {}
    /\ UNCHANGED catalogVars

MaxUpdates == 2

\* The items of the lists handed to cleanAvailableUpdates.
UpdateItems ==
    [id : Ids, installVersion : {<<1, 0, 0>>},
     registryVersion : {<<1, 0, 0>>, <<1, 2, 0>>, <<2, 0, 0>>}]

UpdateLists == UNION { [1..n -> UpdateItems] : n \in 0..MaxUpdates }

NextUpdates ==
    \/ \E id \in Ids : synchronizeEntryCall(id) /\ UNCHANGED <<pendingVars, fetchVars>>
    \/ getAvailableUpdatesCall /\ UNCHANGED <<pendingVars, fetchVars>>
    \/ \E updates \in UpdateLists :
          cleanAvailableUpdatesCall(updates) /\ UNCHANGED <<pendingVars, fetchVars>>

SpecUpdates == InitSynchronize /\ [][NextUpdates]_vars

(***************************************************************************)
(* Marks and commits: the three pending sets, the three commit calls and   *)
(* the callbacks of the Package calls they make, one commit at a time      *)
(***************************************************************************)

\* The install side a load of <user>/<id> at version 1.0.0 stores.
LoadedInstallInfo(id) ==
    [metadata |-> [name |-> id, version |-> <<1, 0, 0>>],
     path |-> "user/" \o id, locationType |-> "user", status |-> "enabled"]

\* The map after Registry2 was applied and "a" and "b" were loaded.
CommitStartMap ==
    LET populated == populateExtensions(<<>>, Registry2)
        withA == synchronizeEntry(WithInstallInfo(populated, "a", LoadedInstallInfo("a")), "a")
    IN  synchronizeEntry(WithInstallInfo(withA, "b", LoadedInstallInfo("b")), "b")

\* The downloads that mark an update in this specification.
CommitDownloads ==
    [name : Ids, installationStatus : {"NEEDS_UPDATE"}, localPath : {"pkg"},
     keepFile : {"undefined", "true"}]

InitCommit ==
    /\ InitPendingSets
    /\ InitOut
    /\ InitFetchIdle
    /\ extensions = CommitStartMap
    /\ packageOps = {}
    /\ batch = NULL

\* No commit is waiting for its Package calls: the dialog marks, commits on
\* close, and is not reopened before the commit has settled.
CanCommit == IF batch = NULL THEN TRUE ELSE batch.promise # "pending"

NextCommit ==
    \/ \E id \in Ids : CanCommit /\ markForRemoval(id, TRUE) /\ UNCHANGED <<catalogVars, fetchVars>>
    \/ \E id \in Ids : CanCommit /\ markForDisabling(id, TRUE) /\ UNCHANGED <<catalogVars, fetchVars>>
    \/ \E r \in CommitDownloads : CanCommit /\ updateFromDownload(r) /\ UNCHANGED <<catalogVars, fetchVars>>
    \/ CanCommit /\ removeMarkedExtensions /\ UNCHANGED fetchVars
    \/ CanCommit /\ disableMarkedExtensions /\ UNCHANGED fetchVars
    \/ CanCommit /\ updateExtensions /\ UNCHANGED fetchVars
    \/ \E id \in Ids : removeDone(id) /\ UNCHANGED <<pendingVars, fetchVars>>
    \/ \E id \in Ids : removeFail(id) /\ UNCHANGED <<pendingVars, fetchVars>>
    \/ \E id \in Ids : enableOrDisableDone(id, FALSE) /\ UNCHANGED <<pendingVars, fetchVars>>
    \/ \E id \in Ids : enableOrDisableFail(id, FALSE) /\ UNCHANGED <<pendingVars, fetchVars>>
    \/ \E id \in Ids : updateDone(id) /\ UNCHANGED <<pendingVars, fetchVars>>
    \/ \E id \in Ids : updateFail(id) /\ UNCHANGED <<pendingVars, fetchVars>>

SpecCommit == InitCommit /\ [][NextCommit]_vars

(***************************************************************************)
(* getCompatibilityInfo on registry records of every shape                 *)
(***************************************************************************)

\* The longest versions list of the records.
MaxVersions == 3

\* The ranges a version may carry in "brackets"; NULL is no range.
CompatRanges ==
    {NULL, Range("<", <<2, 0, 0>>), Range(">=", <<2, 0, 0>>), Range("~", <<1, 4>>),
     Range("~", <<2>>)}

\* The i-th version of a versions list.
NthVersion(i) == <<1, i - 1, 0>>

\* The versions lists: oldest first, every version with any of the ranges.
VersionLists ==
    UNION { { [i \in 1..n |-> VersionInfo(NthVersion(i), r[i])] : r \in [1..n -> CompatRanges] }
            : n \in 0..MaxVersions }

\* A record with the versions 1.0.0 (for hosts <2.0.0) and 2.0.0 (for hosts
\* >=2.0.0).
TwoMajorsEntry ==
    [metadata |-> [name |-> "a", version |-> <<2, 0, 0>>],
     versions |-> << VersionInfo(<<1, 0, 0>>, Range("<", <<2, 0, 0>>)),
                     VersionInfo(<<2, 0, 0>>, Range(">=", <<2, 0, 0>>)) >>]

\* The registry records getCompatibilityInfo is called with: with a versions
\* list, or with the range in metadata.brackets or metadata.engines.brackets.
CompatEntries ==
    { [metadata |-> [name |-> "a", version |-> <<1, 0, 0>>], versions |-> vs] : vs \in VersionLists }
    \cup {TwoMajorsEntry}
    \cup { [metadata |-> [name |-> "a", version |-> <<1, 0, 0>>, brackets |-> r]] : r \in CompatRanges }
    \cup { [metadata |-> [name |-> "a", version |-> <<1, 0, 0>>, engines |-> [brackets |-> r]]]
            : r \in CompatRanges }

\* The host API versions of the calls.
ApiVersions == {<<1, 5, 0>>, <<2, 0, 0>>}

InitCompatibility == InitPendingSets /\ InitOut /\ InitCatalogEmpty /\ InitFetchIdle

NextCompatibility ==
    \E entry \in CompatEntries, apiVersion \in ApiVersions :
        getCompatibilityInfoCall(entry, apiVersion)
            /\ UNCHANGED <<pendingVars, catalogVars, fetchVars>>

SpecCompatibility == InitCompatibility /\ [][NextCompatibility]_vars

(***************************************************************************)
(* remove, enable and disable with the callbacks of the Package calls they *)
(* make, interleaved with extension loads, on a populated map              *)
(***************************************************************************)

\* The number of Package calls that may be awaiting their callback.
MaxPackageOps == 2

\* The package.json metadata the loads of this specification report.
LifecycleMetadata == [name : Ids, version : {<<1, 0, 0>>}]

InitLifecycle ==
    /\ InitPendingSets
    /\ InitOut
    /\ InitFetchIdle
    /\ extensions = populateExtensions(<<>>, Registry2)
    /\ packageOps = {}
    /\ batch = NULL

CanCallPackage == Cardinality(packageOps) < MaxPackageOps

NextLifecycle ==
    \/ \E e \in LoadEvents, m \in LifecycleMetadata :
         handleExtensionLoad(e, "user", m) /\ UNCHANGED <<pendingVars, fetchVars>>
    \/ \E id \in Ids : CanCallPackage /\ remove(id) /\ UNCHANGED <<pendingVars, fetchVars>>
    \/ \E id \in Ids : removeDone(id) /\ UNCHANGED <<pendingVars, fetchVars>>
    \/ \E id \in Ids : removeFail(id) /\ UNCHANGED <<pendingVars, fetchVars>>
    \/ \E id \in Ids : CanCallPackage /\ enable(id) /\ UNCHANGED <<pendingVars, fetchVars>>
    \/ \E id \in Ids : CanCallPackage /\ disable(id) /\ UNCHANGED <<pendingVars, fetchVars>>
    \/ \E id \in Ids, e \in BOOLEAN : enableOrDisableDone(id, e) /\ UNCHANGED <<pendingVars, fetchVars>>
    \/ \E id \in Ids, e \in BOOLEAN : enableOrDisableFail(id, e) /\ UNCHANGED <<pendingVars, fetchVars>>

SpecLifecycle == InitLifecycle /\ [][NextLifecycle]_vars

(***************************************************************************)
(* The registry download protocol: downloadRegistry calls interleaved with *)
(* the callbacks of the requests, reads, writes and timers they start      *)
(***************************************************************************)

\* The extension "a" was loaded at startup; the cache is either missing or
\* holds the registry of version 1.
InitFetch ==
    /\ InitPendingSets
    /\ InitOut
    /\ packageOps = {}
    /\ batch = NULL
    /\ extensions = [x \in {"a"} |->
                       [registryInfo |-> NULL,
                        installInfo |-> [metadata |-> [name |-> "a", version |-> <<1, 0, 0>>],
                                         path |-> "user/a", locationType |-> "user",
                                         status |-> "enabled"]]]
    /\ pendingDownloadRegistry = 0
    /\ flights = [f \in Flights |-> IdleFlight]
    /\ \/ cacheFile = NULL /\ storedVersion = NULL
       \/ /\ cacheFile = JSON_stringify(filterIncompatibleEntries(Published[1]))
          /\ storedVersion = StoredString(Num(1))
    /\ serverVersion = 1
    /\ bundledOk \in BOOLEAN
    /\ popularityAnswers = 0

\* The callbacks of the requests, reads, writes and timers of the flights.
FlightCallbacks ==
    \/ \E f \in Flights, answered \in BOOLEAN : cacheReadDone(f, answered)
    \/ \E f \in Flights : timerFired(f)
    \/ \E f \in Flights : localLoaded(f)
    \/ \E f \in Flights : versionCheckDone(f)
    \/ \E f \in Flights : versionCheckFail(f)
    \/ \E f \in Flights : versionRereadDone(f)
    \/ \E f \in Flights : downloadDone(f)
    \/ \E f \in Flights, ok \in BOOLEAN : cacheWritten(f, ok)
    \/ \E f \in Flights : downloadFail(f)

\* The callbacks, and the publication of a registry.
FetchCallbacks ==
    \/ FlightCallbacks
    \/ publishRegistry

NextFetch ==
    \/ \E force \in BOOLEAN : downloadRegistry(force)
    \/ FetchCallbacks

SpecFetch == InitFetch /\ [][NextFetch]_vars

(***************************************************************************)
(* The download protocol on a cache file whose reads may fail, with the    *)
(* registry of version 1 on the server throughout                          *)
(***************************************************************************)

NextCacheFailure ==
    \/ \E force \in BOOLEAN : downloadRegistry(force)
    \/ FlightCallbacks
    \/ \E f \in Flights : cacheReadFail(f, FALSE)
    \/ \E f \in Flights : versionRereadFail(f)

SpecCacheFailure == InitFetch /\ [][NextCacheFailure]_vars

\* The same protocol with an event loop that delivers every callback: no
\* answer, read, write or timer stays outstanding forever. Every callback
\* runs once, so weak fairness of their disjunction delivers each of them.
DeliveredCallbacks ==
    \/ FlightCallbacks
    \/ \E f \in Flights : cacheReadFail(f, FALSE)
    \/ \E f \in Flights : versionRereadFail(f)

SpecCacheFailureFair == SpecCacheFailure /\ WF_vars(DeliveredCallbacks)

(***************************************************************************)
(* The same protocol with a popularity endpoint that answers, for          *)
(* refreshes made one after the other: a call is made when every callback  *)
(* of the earlier flights has run                                          *)
(***************************************************************************)

\* The number of popularity requests that get an answer.
MaxPopularityAnswers == 1

InitPopularity ==
    /\ InitPendingSets
    /\ InitOut
    /\ InitCatalogEmpty
    /\ pendingDownloadRegistry = 0
    /\ flights = [f \in Flights |-> IdleFlight]
    /\ \/ cacheFile = NULL /\ storedVersion = NULL
       \/ /\ cacheFile = JSON_stringify(filterIncompatibleEntries(Published[1]))
          /\ storedVersion = StoredString(Num(1))
    /\ serverVersion = 1
    /\ bundledOk = TRUE
    /\ popularityAnswers = MaxPopularityAnswers

\* Every callback of every flight has run.
AllQuiescent == \A f \in Flights : FlightQuiescent(f)

NextPopularity ==
    \/ \E force \in BOOLEAN : AllQuiescent /\ downloadRegistry(force)
    \/ FetchCallbacks
    \/ \E f \in Flights : patchReadDone(f)
    \/ \E f \in Flights, popularity \in Popularities : popularityDone(f, popularity)
    \/ \E f \in Flights, ok \in BOOLEAN : patchWritten(f, ok)

SpecPopularity == InitPopularity /\ [][NextPopularity]_vars

(***************************************************************************)
(* Properties                                                              *)
(***************************************************************************)

\* The elements of a sequence.
Elements(seq) == {seq[i] : i \in 1..Len(seq)}

\* The registry side of every id of `registry` in the map exts is the record
\* of `registry` (with the flags synchronizeEntry adds left aside).
RegistrySideIs(exts, registry) ==
    \A id \in DOMAIN registry :
        /\ id \in DOMAIN exts
        /\ Present(exts[id].registryInfo)
        /\ [k \in DOMAIN registry[id] |-> exts[id].registryInfo[k]] = registry[id]

\* The version endpoint answered flight f with the version stored locally.
SameVersionAnswered(f) ==
    /\ Present(flights[f].remote)
    /\ ~StrictNotEqual(flights[f].remote, ParseInt(flights[f].currentRegistryVersion))

\* The version request of flight f failed.
VersionCheckFailed(f) ==
    /\ flights[f].check \in {"rereadFail", "update", "skipped"}
    /\ ~Present(flights[f].remote)

\* id is in both the update marks and the removal marks.
InBothMarks(toUpdate, toRemove, id) == id \in DOMAIN toUpdate /\ id \in toRemove

\* C1 (as claimed): no id is at the same time marked for update and marked
\* for removal.
C1_UpdateExcludesRemoval ==
    \A id \in Ids : ~(isMarkedForUpdate(id) /\ isMarkedForRemoval(id))

\* C1 (amended): an updateFromDownload with an update status leaves its id
\* marked for update and not for removal; an id comes to carry both marks
\* only by a markForRemoval(id, true) made while it is marked for update.
C1_UpdateClearsRemoval ==
    [][\A id \in Ids :
         /\ ( /\ lastOp'.op = "updateFromDownload"
              /\ lastOp'.id = id
              /\ IsUpdateStatus(lastOp'.arg) )
            => (id \in DOMAIN idsToUpdate' /\ id \notin idsToRemove')
         /\ ( /\ InBothMarks(idsToUpdate', idsToRemove', id)
              /\ ~InBothMarks(idsToUpdate, idsToRemove, id) )
            => ( /\ lastOp'.op = "markForRemoval"
                 /\ lastOp'.id = id
                 /\ lastOp'.arg = TRUE
                 /\ isMarkedForUpdate(id) )]_vars

\* C1 witness: an update was just marked for one id while another id carries
\* both marks.
C1_Witness ==
    /\ lastOp.op = "updateFromDownload"
    /\ IsUpdateStatus(lastOp.arg)
    /\ isMarkedForUpdate(lastOp.id)
    /\ ~isMarkedForRemoval(lastOp.id)
    /\ \E other \in Ids \ {lastOp.id} : InBothMarks(idsToUpdate, idsToRemove, other)

\* C2: at most one full-registry download request is in flight at any time.
C2_SingleDownload ==
    Cardinality({f \in Flights : flights[f].download = "inflight"}) <= 1

\* C2 witness: a downloadRegistry call was made while a download was in
\* flight, and returned the pending promise.
C2_Witness ==
    /\ \E f \in Flights : flights[f].download = "inflight"
    /\ lastOp = [op |-> "downloadRegistry", started |-> FALSE]

\* C3: with a cache record, the cached registry is presented and the promise
\* resolved before any network response of the flight is processed: while the
\* presentation is still to run no response was handled, and once it ran the
\* flight's promise is resolved.
C3_CachePresentedFirst ==
    \A f \in Flights :
        /\ flights[f].timer = "scheduled" => flights[f].check = "inflight"
        /\ flights[f].timer \in {"fired", "threw"} => flights[f].promise = "resolved"

\* C4: a promise is rejected only when there is neither a cache record nor a
\* loadable bundled snapshot.
C4_RejectOnlyWithoutFallback ==
    [][\A f \in Flights :
         (flights[f].promise = "pending" /\ flights'[f].promise = "rejected")
            => (~Present(cacheFile) /\ ~bundledOk)]_vars

\* C5: no cache, the version check and the download fail, the bundled
\* snapshot loads: once every callback ran, the promise is resolved and the
\* catalog was populated from the bundled snapshot, with no cache written.
C5_BundledFallback ==
    \A f \in Flights :
        ( /\ ~flights[f].force
          /\ flights[f].cache = "miss"
          /\ VersionCheckFailed(f)
          /\ flights[f].download = "failed"
          /\ bundledOk
          /\ FlightQuiescent(f) )
        => /\ flights[f].promise = "resolved"
           /\ flights[f].local = "applied"

\* C6: a cache record exists and the version endpoint answers the stored
\* version: no download is requested, and once every callback ran the promise
\* is resolved and the flight emitted registryDownload exactly once.
C6_CacheHitSameVersion ==
    \A f \in Flights :
        (flights[f].cache = "hit" /\ SameVersionAnswered(f))
        => /\ flights[f].download = "none"
           /\ FlightQuiescent(f) =>
                (flights[f].promise = "resolved" /\ flights[f].nRegistryDownload = 1)

C6_Witness ==
    \E f \in Flights :
        /\ flights[f].cache = "hit"
        /\ SameVersionAnswered(f)
        /\ FlightQuiescent(f)
        /\ flights[f].timer = "fired"

C8_HandleClearedWhenSettled ==
    \A f \in Flights :
        (flights[f].started /\ flights[f].promise # "pending" /\ FlightQuiescent(f))
        => pendingDownloadRegistry # f

\* C9 (as claimed): when the flight resolved from cache and its download then
\* succeeds with other data, the download is applied to the catalog and a
\* second registryDownload is emitted, the promise staying as it was.
C9_BackgroundDownloadApplied ==
    [][\A f \in Flights :
         ( /\ flights[f].cache = "hit"
           /\ flights[f].timer = "fired"
           /\ flights[f].promise = "resolved"
           /\ flights[f].download = "writing"
           /\ flights'[f].download = "done"
           /\ flights[f].registry # filterIncompatibleEntries(JSON_parse(flights[f].registryJson)) )
         => /\ RegistrySideIs(extensions', flights[f].registry)
            /\ <<"registryDownload">> \in Elements(emitted')
            /\ flights'[f].promise = flights[f].promise]_vars

\* C9 (amended): when the flight found a cache record and its download then
\* succeeds, the download goes to the cache file only: the catalog is left as
\* it was, nothing is emitted and the promise is not settled again.
C9_BackgroundDownloadCachedOnly ==
    [][\A f \in Flights :
         ( /\ flights[f].cache = "hit"
           /\ flights[f].download = "writing"
           /\ flights'[f].download = "done" )
         => /\ extensions' = extensions
            /\ emitted' = <<>>
            /\ flights'[f].promise = flights[f].promise
            /\ cacheFile' \in {JSON_stringify(flights[f].registry), cacheFile}
            /\ storedVersion' = storedVersion
            /\ storedVersion = StoredString(flights[f].newVersion)]_vars

C9_Witness ==
    \E f \in Flights :
        /\ flights[f].cache = "hit"
        /\ flights[f].timer = "fired"
        /\ flights[f].download = "done"
        /\ flights[f].registry # filterIncompatibleEntries(JSON_parse(flights[f].registryJson))
        /\ cacheFile = JSON_stringify(flights[f].registry)
        /\ ~RegistrySideIs(extensions, flights[f].registry)

\* An entry of the map with neither side.
IsEmptyEntry(exts, id) ==
    /\ id \in DOMAIN exts
    /\ ~Present(exts[id].registryInfo)
    /\ ~Present(exts[id].installInfo)

\* C10 (as claimed): every entry of the map has registryInfo or installInfo.
C10_NoEmptyEntry == \A id \in Ids : ~IsEmptyEntry(extensions, id)

\* C10 (amended): no entry is ever deleted from the map, and an entry is
\* left with neither side only by a successful remove of an id that has no
\* registryInfo; such an entry stays in the map.
C10_EmptyOnlyByRemove ==
    [][/\ DOMAIN extensions \subseteq DOMAIN extensions'
       /\ \A id \in Ids :
            (IsEmptyEntry(extensions', id) /\ ~IsEmptyEntry(extensions, id))
               => /\ lastOp' = [op |-> "remove.done", id |-> id, result |-> "resolved"]
                  /\ HasInstallInfo(id)
                  /\ ~HasRegistryInfo(id)]_vars

C10_Witness ==
    /\ lastOp.op = "remove.done"
    /\ IsEmptyEntry(extensions, lastOp.id)

\* C11 (as claimed): after a population, an entry has registryInfo only if
\* its id is a key of the registry that was applied last.
C11_RegistryInfoOnlyFromLast ==
    lastOp.op = "populate" =>
        \A id \in Ids : HasRegistryInfo(id) => id \in DOMAIN lastOp.registry

\* C11 (amended): a population gives every id of its registry that registry's
\* record and leaves every other entry as it was, registryInfo included; it
\* never takes an id out of the map.
C11_PopulationMerges ==
    [][lastOp'.op = "populate" =>
         /\ DOMAIN extensions' = DOMAIN extensions \cup DOMAIN lastOp'.registry
         /\ RegistrySideIs(extensions', lastOp'.registry)
         /\ \A id \in DOMAIN extensions \ DOMAIN lastOp'.registry :
                extensions'[id] = extensions[id]]_vars

\* C11 witness: a registry was applied that does not list an id which has
\* registryInfo from an earlier one.
C11_Witness ==
    /\ lastOp.op = "populate"
    /\ \E id \in Ids \ DOMAIN lastOp.registry : HasRegistryInfo(id)

\* C12 (as claimed): after updateFromDownload(result), whatever the
\* installationStatus, result.name is not marked for removal.
C12_DownloadAlwaysUnmarks ==
    [][lastOp'.op = "updateFromDownload" => lastOp'.id \notin idsToRemove']_vars

\* C12 (amended): updateFromDownload(result) unmarks result.name for removal
\* when the status is one of the four update statuses; with any other status
\* it changes none of the pending sets and emits nothing.
C12_DownloadUnmarksOnUpdateStatus ==
    [][lastOp'.op = "updateFromDownload" =>
         IF lastOp'.arg \in UpdateStatuses
         THEN /\ idsToRemove' = idsToRemove \ {lastOp'.id}
              /\ lastOp'.id \in DOMAIN idsToUpdate'
              /\ idsToDisable' = idsToDisable
         ELSE /\ idsToRemove' = idsToRemove
              /\ idsToUpdate' = idsToUpdate
              /\ idsToDisable' = idsToDisable
              /\ emitted' = <<>>]_vars

\* C12 witness: a download with another status left its id marked for removal.
C12_Witness ==
    /\ lastOp.op = "updateFromDownload"
    /\ lastOp.arg \notin UpdateStatuses
    /\ isMarkedForRemoval(lastOp.id)

\* C13: markForRemoval(id, true) on an id not marked adds the id to the
\* removal marks and nothing else; markForRemoval(id, false) right after it
\* takes the id out again, so that the three sets are what they were before
\* the two calls and the id is not marked.
C13_MarkThenUnmark ==
    [][\A id \in Ids :
         /\ ( /\ lastOp'.op = "markForRemoval" /\ lastOp'.id = id
              /\ lastOp'.arg = TRUE /\ ~isMarkedForRemoval(id) )
            => /\ idsToRemove' = idsToRemove \cup {id}
               /\ idsToUpdate' = idsToUpdate
               /\ idsToDisable' = idsToDisable
         /\ ( /\ lastOp = [op |-> "markForRemoval", id |-> id, arg |-> TRUE, was |-> FALSE]
              /\ lastOp' = [op |-> "markForRemoval", id |-> id, arg |-> FALSE, was |-> TRUE] )
            => /\ id \notin idsToRemove'
               /\ idsToRemove' \cup {id} = idsToRemove
               /\ idsToUpdate' = idsToUpdate
               /\ idsToDisable' = idsToDisable]_vars

\* C13 witness: an id was just unmarked while another id stays marked.
C13_Witness ==
    /\ lastOp = [op |-> "markForRemoval", id |-> "a", arg |-> FALSE, was |-> TRUE]
    /\ ~isMarkedForRemoval("a")
    /\ isMarkedForRemoval("b")
    /\ hasExtensionsToUpdate

\* C16: remove, enable and disable on an id with no install side reject at
\* once with the not-installed error of that id and call no Package function;
\* when the Package call fails the promise is rejected with its error. In both
\* cases the map is left as it was and nothing is emitted.
C16_RejectionsChangeNothing ==
    [][/\ ( /\ lastOp'.op \in {"remove", "enable", "disable"}
            /\ ~HasInstallInfo(lastOp'.id) )
          => /\ lastOp'.result = "rejected"
             /\ lastOp'.error = "EXTENSION_NOT_INSTALLED: " \o lastOp'.id
             /\ packageOps' = packageOps
             /\ extensions' = extensions
             /\ emitted' = <<>>
       /\ lastOp'.op \in {"remove.fail", "enable.fail", "disable.fail"}
          => /\ lastOp'.result = "rejected"
             /\ lastOp'.error = "PACKAGE_ERROR"
             /\ extensions' = extensions
             /\ emitted' = <<>>]_vars

\* C16 witness: a call on an id that is not installed was rejected.
C16_Witness ==
    /\ lastOp.op \in {"remove", "enable", "disable"}
    /\ lastOp.result = "rejected"
    /\ ~HasInstallInfo(lastOp.id)

\* C17: when Package.remove succeeds for an installed id, the install side of
\* the entry is cleared, its registry side and the other entries are left as
\* they were, the promise resolves and exactly statusChange(id) is emitted.
C17_RemoveClearsInstallSide ==
    [][lastOp'.op = "remove.done" =>
         /\ HasInstallInfo(lastOp'.id) =>
              /\ extensions'[lastOp'.id].installInfo = NULL
              /\ extensions'[lastOp'.id].registryInfo = extensions[lastOp'.id].registryInfo
         /\ \A id \in DOMAIN extensions \ {lastOp'.id} : extensions'[id] = extensions[id]
         /\ DOMAIN extensions' = DOMAIN extensions
         /\ lastOp'.result = "resolved"
         /\ emitted' = << <<"statusChange", lastOp'.id>> >>]_vars

\* C17 witness: a remove succeeded on an entry that keeps its registry side.
C17_Witness ==
    /\ lastOp.op = "remove.done"
    /\ HasRegistryInfo(lastOp.id)
    /\ ~HasInstallInfo(lastOp.id)

\* The installed version of an entry is strictly older than the top-level
\* version of its registry record.
InstalledIsOlder(entry) ==
    /\ "version" \in DOMAIN entry.installInfo.metadata
    /\ semver_lt(entry.installInfo.metadata.version, entry.registryInfo.metadata.version)

\* The indices of the versions[] records of an entry the host can run.
HostCompatibleIndices(entry) ==
    {i \in 1..Len(entry.registryInfo.versions) :
        \/ entry.registryInfo.versions[i].brackets = NULL
        \/ semver_satisfies(ApiVersion, entry.registryInfo.versions[i].brackets)}

\* The newest version the host can run is strictly newer than the installed.
NewestCompatibleIsNewer(entry) ==
    \E i \in HostCompatibleIndices(entry) :
        /\ \A j \in HostCompatibleIndices(entry) : j <= i
        /\ semver_lt(entry.installInfo.metadata.version, entry.registryInfo.versions[i].version)

DerivedFields(entry) ==
    [side \in {"installInfo", "registryInfo"} |->
        [f \in {"owner", "updateAvailable", "updateCompatible", "lastCompatibleVersion"} |->
            Get(entry[side], f, UNDEFINED)]]

\* C19: synchronizeEntry called once more on an entry it has synchronized,
\* with neither side changed in between, leaves owner, updateAvailable,
\* updateCompatible and lastCompatibleVersion as they are.
C19_SynchronizeIdempotent ==
    \A id \in DOMAIN extensions :
        NeedsSynchronize(extensions, id) =>
            DerivedFields(synchronizeEntry(extensions, id)[id]) = DerivedFields(extensions[id])

\* C19 witness: a synchronized entry with an update flagged and a
\* lastCompatibleVersion recorded.
C19_Witness ==
    \E id \in DOMAIN extensions :
        /\ NeedsSynchronize(extensions, id)
        /\ extensions[id].installInfo.updateAvailable
        /\ "lastCompatibleVersion" \in DOMAIN extensions[id].installInfo
        /\ lastOp.op \in {"populate", "load"}

\* The indices of the versions of a list whose range apiVersion satisfies;
\* a version without a range counts.
SatisfiedIndices(versions, apiVersion) ==
    {i \in 1..Len(versions) :
        \/ versions[i].brackets = NULL
        \/ semver_satisfies(apiVersion, versions[i].brackets)}

\* C20: with a non-empty versions list, isCompatible says that some version's
\* range is satisfied by the host, compatibleVersion is then the last such
\* version of the list and isLatestVersion says that it is the last element;
\* with no versions list the range of the metadata decides, and a compatible
\* result has isLatestVersion true.
C20_NewestCompatibleVersion ==
    lastOp.op = "getCompatibilityInfo" =>
        LET entry == lastOp.entry
            result == lastOp.result
        IN  IF "versions" \in DOMAIN entry
            THEN Len(entry.versions) > 0 =>
                   LET sat == SatisfiedIndices(entry.versions, lastOp.apiVersion)
                   IN  /\ result.isCompatible = (sat # {})
                       /\ sat # {} =>
                            \E i \in sat :
                                /\ \A j \in sat : j <= i
                                /\ result.compatibleVersion = entry.versions[i].version
                                /\ result.isLatestVersion = (i = Len(entry.versions))
            ELSE /\ result.isCompatible =
                       ( \/ RequiredVersion(entry.metadata) = NULL
                         \/ semver_satisfies(lastOp.apiVersion, RequiredVersion(entry.metadata)) )
                 /\ result.isCompatible =>
                       (result.isLatestVersion /\ result.compatibleVersion = entry.metadata.version)

\* C20 witness: the newest version is not compatible, two older ones are, and
\* the result names the newer of the two.
C20_Witness ==
    /\ lastOp.op = "getCompatibilityInfo"
    /\ "versions" \in DOMAIN lastOp.entry
    /\ SatisfiedIndices(lastOp.entry.versions, lastOp.apiVersion) = {1, 2}
    /\ lastOp.result.compatibleVersion = NthVersion(2)
    /\ ~lastOp.result.isLatestVersion

\* The ids of a commit whose call was rejected.
FailedItems(b) == {e.item : e \in b.errors}

\* The bookkeeping of a commit: every id is waiting, succeeded or failed, with
\* one error per failed id; the promise resolves exactly when every id
\* succeeded and rejects exactly when none waits and some failed; the call of
\* a waiting id is outstanding; what a succeeded id did is still in the map.
CommitAccounts(b) ==
    /\ b.items = b.waiting \cup b.succeeded \cup FailedItems(b)
    /\ b.waiting \cap b.succeeded = {}
    /\ b.waiting \cap FailedItems(b) = {}
    /\ b.succeeded \cap FailedItems(b) = {}
    /\ Cardinality(b.errors) = Cardinality(FailedItems(b))
    /\ (b.promise = "resolved") <=> (b.succeeded = b.items)
    /\ (b.promise = "rejected") <=> (b.waiting = {} /\ FailedItems(b) # {})
    /\ PackageCalls(b.kind, b.waiting) \subseteq packageOps
    /\ b.kind = "remove" => \A id \in b.succeeded : ~HasInstallInfo(id)
    /\ b.kind = "disable" =>
         \A id \in b.succeeded :
             HasInstallInfo(id) => extensions[id].installInfo.status = "disabled"

\* C14: each commit attempts every id of its set, failed or not: an id gets
\* its Package call or, when it is not installed, its own error; the promise
\* resolves exactly when every id succeeded, otherwise rejects with one error
\* item per failed id and no others, and the successes stay applied.
C14_CommitAggregatesErrors ==
    /\ [](IF batch = NULL THEN TRUE ELSE CommitAccounts(batch))
    /\ [][/\ lastOp'.op = "removeMarkedExtensions" =>
               /\ batch'.kind = "remove"
               /\ batch'.items = idsToRemove
               /\ \A id \in idsToRemove :
                      IF HasInstallInfo(id)
                      THEN [kind |-> "remove", id |-> id] \in packageOps'
                      ELSE [item |-> id, error |-> "EXTENSION_NOT_INSTALLED: " \o id]
                               \in batch'.errors
          /\ lastOp'.op = "disableMarkedExtensions" =>
               /\ batch'.kind = "disable"
               /\ batch'.items = idsToDisable
               /\ \A id \in idsToDisable :
                      IF HasInstallInfo(id)
                      THEN [kind |-> "disable", id |-> id] \in packageOps'
                      ELSE [item |-> id, error |-> "EXTENSION_NOT_INSTALLED: " \o id]
                               \in batch'.errors
          /\ lastOp'.op = "updateExtensions" =>
               /\ batch'.kind = "update"
               /\ batch'.items = DOMAIN idsToUpdate
               /\ \A id \in DOMAIN idsToUpdate :
                      [kind |-> "update", id |-> id] \in packageOps']_vars

\* C14 witness: a commit of two ids was rejected with the error of one of
\* them while the removal of the other one is in the map.
C14_Witness ==
    /\ batch # NULL
    /\ batch.kind = "remove"
    /\ batch.promise = "rejected"
    /\ \E id \in batch.succeeded : ~HasInstallInfo(id)
    /\ \E e \in batch.errors : e.item \notin batch.succeeded

\* The pending set of a kind of commit is empty in the next state.
CommittedSetEmptied(kind) ==
    CASE kind = "remove" -> idsToRemove' = {}
      [] kind = "disable" -> idsToDisable' = {}
      [] kind = "update" -> DOMAIN idsToUpdate' = {}

\* C15 as stated: when a commit has completed, its set is empty.
C15_CommitClearsSet ==
    [][IF batch' = NULL \/ batch' = batch THEN TRUE
       ELSE batch'.promise # "pending" => CommittedSetEmptied(batch'.kind)]_vars

\* C15: a commit leaves the three pending sets as they were, when it begins
\* and when each of its calls settles; the ids stay marked after the commit
\* has completed, so a second commit attempts them again.
C15_CommitKeepsSets ==
    [][batch' # batch =>
         /\ idsToRemove' = idsToRemove
         /\ idsToDisable' = idsToDisable
         /\ idsToUpdate' = idsToUpdate]_vars

\* C15 witness: a second commit of the removals was rejected because an id
\* that the first commit removed was still marked and is not installed.
C15_Witness ==
    /\ batch # NULL
    /\ batch.kind = "remove"
    /\ batch.promise = "rejected"
    /\ \E id \in idsToRemove :
           [item |-> id, error |-> "EXTENSION_NOT_INSTALLED: " \o id] \in batch.errors

\* C21: when the newest version is not compatible and an earlier one is, the
\* result has isLatestVersion false and its requiresNewer is what
\* getCompatibilityInfoForVersion gives for the newest version; versions
\* 1.0.0 (<2.0.0) and 2.0.0 (>=2.0.0) on host 1.5.0 give 1.0.0, not latest,
\* requiresNewer true.
C21_RequiresNewerFromNewest ==
    lastOp.op = "getCompatibilityInfo" =>
        LET entry == lastOp.entry
            result == lastOp.result
        IN  /\ ("versions" \in DOMAIN entry /\ Len(Get(entry, "versions", <<>>)) > 0) =>
                 LET n == Len(entry.versions)
                     sat == SatisfiedIndices(entry.versions, lastOp.apiVersion)
                     newest == getCompatibilityInfoForVersion(entry.versions[n], lastOp.apiVersion)
                 IN  (n \notin sat /\ sat # {}) =>
                        /\ result.isCompatible
                        /\ result.isLatestVersion = FALSE
                        /\ "requiresNewer" \in DOMAIN newest
                        /\ "requiresNewer" \in DOMAIN result
                        /\ result.requiresNewer = newest.requiresNewer
            /\ (entry = TwoMajorsEntry /\ lastOp.apiVersion = <<1, 5, 0>>) =>
                 result = [isCompatible |-> TRUE, compatibleVersion |-> <<1, 0, 0>>,
                           isLatestVersion |-> FALSE, requiresNewer |-> TRUE]

\* C21 witness: the call on the record with versions 1.0.0 and 2.0.0 from a
\* host 1.5.0 returned the older version with requiresNewer true.
C21_Witness ==
    /\ lastOp.op = "getCompatibilityInfo"
    /\ lastOp.entry = TwoMajorsEntry
    /\ lastOp.apiVersion = <<1, 5, 0>>
    /\ lastOp.result.compatibleVersion = <<1, 0, 0>>
    /\ lastOp.result.requiresNewer

\* The texts the writes of the model hand to _putCachedRegistry: a filtered
\* published registry, as it is or with the popularity counts patched in.
CachePayloads ==
    LET downloaded == {filterIncompatibleEntries(Published[v]) : v \in 1..Len(Published)}
    IN  {JSON_stringify(r) : r \in downloaded}
        \cup {JSON_stringify(patchedRegistry(r, popularity)) :
                 r \in downloaded, popularity \in Popularities}

\* The write of flight f settles in this step with the text it was given in
\* the file.
WriteLands(f) ==
    \/ /\ flights[f].download = "writing"
       /\ flights'[f].download = "done"
       /\ cacheFile' = JSON_stringify(flights[f].registry)
    \/ /\ flights[f].patch = "write"
       /\ flights'[f].patch = "done"
       /\ cacheFile' = flights[f].patched

DownloadedRegistries == {filterIncompatibleEntries(Published[v]) : v \in 1..Len(Published)}

\* C23: the step in which the bundled snapshot is answered (shown or not)
\* leaves the cache file and the stored version as they were; the cache file
\* changes only when the write of a downloaded registry settles, to the text
\* of that registry, or when a popularity write settles on an existing
\* record, to a downloaded registry with the counts patched in; it never
\* holds the bundled snapshot.
C23_BundledNeverPersisted ==
    /\ [](cacheFile # JSON_stringify(filterIncompatibleEntries(BundledRegistry)))
    /\ [][/\ \A f \in Flights :
               (flights[f].local = "loading" /\ flights'[f].local # "loading")
               => (cacheFile' = cacheFile /\ storedVersion' = storedVersion)
          /\ cacheFile' # cacheFile =>
               \E f \in Flights :
                   \/ /\ flights[f].download = "writing"
                      /\ flights'[f].download = "done"
                      /\ flights[f].registry \in DownloadedRegistries
                      /\ cacheFile' = JSON_stringify(flights[f].registry)
                   \/ /\ flights[f].patch = "write"
                      /\ flights'[f].patch = "done"
                      /\ cacheFile # NULL
                      /\ \E r \in DownloadedRegistries, popularity \in Popularities :
                             cacheFile' = JSON_stringify(patchedRegistry(r, popularity))]_vars

\* C23 witness: the bundled snapshot is in the catalog, and there is neither
\* a cache file nor a stored version.
C23_Witness ==
    \E f \in Flights :
        /\ flights[f].local = "applied"
        /\ RegistrySideIs(extensions, filterIncompatibleEntries(BundledRegistry))
        /\ cacheFile = NULL
        /\ storedVersion = NULL

\* The stored version is absent or the decimal text of an integer.
StoredVersionIsInteger(stored) == stored = NULL \/ stored.str = "int"

\* C24: the stored registry version is always an integer and no step lowers
\* it (the version endpoint of the model never reports a lower version than
\* before).
C24_VersionIntegerMonotone ==
    /\ [](StoredVersionIsInteger(storedVersion))
    /\ [][(storedVersion # NULL /\ storedVersion' # storedVersion) =>
            /\ storedVersion.str = "int"
            /\ storedVersion'.str = "int"
            /\ storedVersion'.n >= storedVersion.n]_vars

\* Flight f requests the registry download in this step.
DownloadRequested(f) ==
    flights[f].download = "none" /\ flights'[f].download = "inflight"

\* C25: in a flight that was not forced, the download is requested in the
\* step in which the version endpoint answers a version that differs from
\* the stored one, or in which the cache read made after the answer (or after
\* the failure of the version request) finds no record, and in no other
\* step; when the download arrives the stored version becomes the version
\* the endpoint answered (1 when the version request failed), and a cache
\* write that succeeds leaves the text of the filtered download in the file.
C25_DownloadWhenVersionDiffers ==
    /\ [](\A f \in Flights :
            flights[f].check = "inflight" =>
                flights[f].currentRegistryVersion = CurrentRegistryVersion)
    /\ [][\A f \in Flights :
            ~flights'[f].force =>
              /\ DownloadRequested(f) =>
                   \/ /\ flights[f].check = "inflight"
                      /\ StrictNotEqual(Num(serverVersion), ParseInt(CurrentRegistryVersion))
                   \/ /\ flights[f].check \in {"rereadSame", "rereadFail"}
                      /\ cacheFile = NULL
              /\ (flights[f].check = "inflight" /\ Present(flights'[f].remote)) =>
                   /\ flights'[f].remote = Num(serverVersion)
                   /\ DownloadRequested(f)
                        <=> StrictNotEqual(Num(serverVersion), ParseInt(CurrentRegistryVersion))
              /\ ( /\ flights[f].check \in {"rereadSame", "rereadFail"}
                   /\ flights'[f].check \notin {"rereadSame", "rereadFail"} ) =>
                   (DownloadRequested(f) <=> cacheFile = NULL)
              /\ (flights[f].download = "inflight" /\ flights'[f].download = "writing") =>
                   /\ storedVersion' = StoredString(IF Present(flights[f].remote)
                                                    THEN flights[f].remote ELSE Num(1))
                   /\ flights'[f].registry = filterIncompatibleEntries(Published[serverVersion])
              /\ (flights[f].download = "writing" /\ flights'[f].download = "done") =>
                   cacheFile' = IF lastOp'.written THEN JSON_stringify(flights[f].registry)
                                ELSE cacheFile]_vars

\* C25 witness: a flight that found the cache of version 1 was answered
\* version 2, downloaded, and left version 2 stored and its registry cached.
C25_Witness ==
    \E f \in Flights :
        /\ ~flights[f].force
        /\ flights[f].cache = "hit"
        /\ flights[f].currentRegistryVersion = StoredString(Num(1))
        /\ flights[f].remote = Num(2)
        /\ flights[f].download = "done"
        /\ storedVersion = StoredString(Num(2))
        /\ cacheFile = JSON_stringify(filterIncompatibleEntries(Published[2]))

\* The first cache read of flight f fails in this step: the file is there
\* and the flight goes on as with no file.
FirstReadFails(f) ==
    /\ flights[f].cache = "reading"
    /\ flights'[f].cache = "miss"
    /\ cacheFile # NULL

\* The cache read after the version check of flight f fails in this step.
RereadFails(f) ==
    /\ flights[f].check \in {"rereadSame", "rereadFail"}
    /\ flights'[f].check = "update"
    /\ cacheFile # NULL

\* C26: a first read that fails goes the way of a missing cache (bundled
\* snapshot asked for, version check started, nothing rejected or shown); a
\* failed read after the version check requests the download; a failed cache
\* write leaves the file as it was, and the flight shows the download unless
\* something was shown before, resolves its promise and clears the handle; a
\* promise is rejected only in the step in which its registry download fails.
C26_CacheFailuresStayInside ==
    [][\A f \in Flights :
         /\ FirstReadFails(f) =>
              /\ flights'[f].local = "loading"
              /\ flights'[f].timer = "none"
              /\ flights'[f].check = "inflight"
              /\ flights'[f].promise = flights[f].promise
              /\ extensions' = extensions
              /\ emitted' = <<>>
         /\ RereadFails(f) =>
              /\ flights'[f].download = "inflight"
              /\ flights'[f].promise = flights[f].promise
         /\ ( /\ flights[f].download = "writing"
              /\ flights'[f].download = "done"
              /\ ~lastOp'.written ) =>
              /\ cacheFile' = cacheFile
              /\ pendingDownloadRegistry = f
              /\ pendingDownloadRegistry' = 0
              /\ flights'[f].promise # "rejected"
              /\ ~flights[f].alreadyResolvedFromCache =>
                   /\ extensions' = populateExtensions(extensions, flights[f].registry)
                   /\ emitted' = populateEvents(extensions, flights[f].registry)
                   /\ flights'[f].promise = "resolved"
         /\ (flights[f].promise # "rejected" /\ flights'[f].promise = "rejected") =>
              (flights[f].download = "inflight" /\ flights'[f].download = "failed")]_vars

\* C26 witness: the first read of a flight failed on a file that is there,
\* the cache write of its download failed too, and the flight's promise is
\* resolved with the download in the catalog and the handle cleared.
C26_Witness ==
    \E f \in Flights :
        /\ lastOp = [op |-> "callback", written |-> FALSE]
        /\ flights[f].cache = "miss"
        /\ cacheFile # NULL
        /\ flights[f].download = "done"
        /\ flights[f].promise = "resolved"
        /\ RegistrySideIs(extensions, flights[f].registry)
        /\ pendingDownloadRegistry = 0

\* The ids of the registry a cache text encodes; none when there is no file.
CachedIds(file) == IF file = NULL THEN {} ELSE DOMAIN JSON_parse(file)

\* A step of the popularity pass of flight f.
PopularityStep(f) ==
    /\ flights[f].patch \in {"read1", "ajax", "write"}
    /\ flights'[f].patch # flights[f].patch

\* C27: a step of the popularity pass leaves the stored version, the catalog
\* and the ids of the cached registry as they were and emits nothing; with no
\* cache record the pass ends at its first read, before any request.
C27_PopularityPassFrame ==
    [][\A f \in Flights :
         PopularityStep(f) =>
            /\ storedVersion' = storedVersion
            /\ extensions' = extensions
            /\ emitted' = <<>>
            /\ CachedIds(cacheFile') = CachedIds(cacheFile)
            /\ (flights[f].patch = "read1" /\ cacheFile = NULL) => flights'[f].patch = "done"]_vars

\* The metadata of a registry record says that the extension needs node.
RequiresNode(registryEntry) ==
    /\ "nodeIsRequired" \in DOMAIN registryEntry.metadata
    /\ registryEntry.metadata.nodeIsRequired

\* C28: on the browser host no entry of the map has a registry side that
\* requires node, and no record of the cached registry requires node.
C28_NoNodeEntries ==
    /\ \A id \in DOMAIN extensions :
           Present(extensions[id].registryInfo) => ~RequiresNode(extensions[id].registryInfo)
    /\ cacheFile # NULL =>
           \A id \in DOMAIN JSON_parse(cacheFile) : ~RequiresNode(JSON_parse(cacheFile)[id])

\* C28 witness: the registry of version 2, in which "b" requires node, was
\* downloaded, cached and shown, and "b" is neither in the map nor in the
\* cache.
C28_Witness ==
    \E f \in Flights :
        /\ flights[f].download = "done"
        /\ RequiresNode(Published[2]["b"])
        /\ flights[f].registry = [x \in {"a"} |-> Published[2]["a"]]
        /\ cacheFile = JSON_stringify(flights[f].registry)
        /\ RegistrySideIs(extensions, flights[f].registry)
        /\ "b" \notin DOMAIN extensions

\* C29: a synchronizeEntry(id) on an id that is unknown or whose entry lacks
\* a side leaves the whole map as it was and triggers nothing; on an entry
\* with both sides it triggers registryUpdate(id) once and nothing else, and
\* leaves the other entries as they were.
C29_SynchronizeNoOp ==
    [][lastOp'.op = "synchronizeEntry" =>
         LET id == lastOp'.id
         IN  IF HasInstallInfo(id) /\ HasRegistryInfo(id)
             THEN /\ emitted' = << <<"registryUpdate", id>> >>
                  /\ DOMAIN extensions' = DOMAIN extensions
                  /\ \A other \in DOMAIN extensions \ {id} : extensions'[other] = extensions[other]
             ELSE /\ extensions' = extensions
                  /\ emitted' = <<>>]_vars

\* C29 witness: synchronizeEntry was called on an entry with a registry side
\* only, next to an entry with both sides, and nothing was triggered.
C29_Witness ==
    /\ lastOp.op = "synchronizeEntry"
    /\ HasRegistryInfo(lastOp.id)
    /\ ~HasInstallInfo(lastOp.id)
    /\ \E other \in Ids \ {lastOp.id} : HasRegistryInfo(other) /\ HasInstallInfo(other)
    /\ emitted = <<>>

\* The ids whose entry has both sides and an installed version older than
\* the registry's: the entries synchronizeEntry looks for a compatible
\* update of.
HasUpdateAvailable(id) ==
    /\ HasInstallInfo(id)
    /\ HasRegistryInfo(id)
    /\ "version" \in DOMAIN extensions[id].installInfo.metadata
    /\ semver_lt(extensions[id].installInfo.metadata.version,
                 extensions[id].registryInfo.metadata.version)

\* C30: after a synchronizeEntry(id) on an entry with an update available,
\* updateCompatible tells whether the compatibleVersion getCompatibilityInfo
\* returns for the registry record and the host's API version is newer than
\* the installed version, and when it is, lastCompatibleVersion is that
\* compatibleVersion, on both sides of the entry.
C30_SynchronizeAgreesWithResolver ==
    [][(lastOp'.op = "synchronizeEntry" /\ HasUpdateAvailable(lastOp'.id)) =>
         LET id == lastOp'.id
             info == getCompatibilityInfo(extensions[id].registryInfo, ApiVersion)
             installed == extensions[id].installInfo.metadata.version
             newer == IF "compatibleVersion" \in DOMAIN info
                      THEN semver_lt(installed, info.compatibleVersion)
                      ELSE FALSE
         IN  \A side \in {extensions'[id].installInfo, extensions'[id].registryInfo} :
                /\ side.updateCompatible = newer
                /\ newer => side.lastCompatibleVersion = info.compatibleVersion]_vars

\* The versions getCompatibilityInfo looks at in a registry record: the
\* versions list, or metadata alone when there is no list.
CandidateVersions(entry) ==
    IF "versions" \in DOMAIN entry THEN entry.versions ELSE <<entry.metadata>>

\* The range of a version, under brackets or engines.brackets, admits the host.
RangeAdmits(extVersion, apiVersion) ==
    LET range == RequiredVersion(extVersion)
    IN  IF Present(range) THEN semver_satisfies(apiVersion, range) ELSE TRUE

\* No version of the record is compatible with the host.
NoneCompatible(entry, apiVersion) ==
    /\ Len(CandidateVersions(entry)) > 0
    /\ \A i \in 1..Len(CandidateVersions(entry)) :
          ~RangeAdmits(CandidateVersions(entry)[i], apiVersion)

\* C31: when no version of the record is compatible, getCompatibilityInfo
\* returns isCompatible = false without a compatibleVersion, and requiresNewer
\* follows the newest version's range alone: false for a range beginning with
\* "<", true for one beginning with ">", and for "~" true exactly when the
\* host is lower than the bound with its missing components zero.
C31_IncompatibleRequiresNewer ==
    (lastOp.op = "getCompatibilityInfo" /\ NoneCompatible(lastOp.entry, lastOp.apiVersion)) =>
        LET versions == CandidateVersions(lastOp.entry)
            range == RequiredVersion(versions[Len(versions)])
            result == lastOp.result
        IN  /\ result.isCompatible = FALSE
            /\ "compatibleVersion" \notin DOMAIN result
            /\ "isLatestVersion" \notin DOMAIN result
            /\ range.op \in {"<", "<="} => result.requiresNewer = FALSE
            /\ range.op \in {">", ">="} => result.requiresNewer = TRUE
            /\ range.op = "~" =>
                  result.requiresNewer = semver_lt(lastOp.apiVersion, ZeroFill(range.bound))

\* C31 witness: three versions, none compatible with host 1.5.0, the newest
\* with the range ~2, and the result asks for a newer host.
C31_Witness ==
    /\ lastOp.op = "getCompatibilityInfo"
    /\ NoneCompatible(lastOp.entry, lastOp.apiVersion)
    /\ "versions" \in DOMAIN lastOp.entry
    /\ Len(lastOp.entry.versions) = 3
    /\ RequiredVersion(lastOp.entry.versions[3]) = Range("~", <<2>>)
    /\ lastOp.apiVersion = <<1, 5, 0>>
    /\ lastOp.result.requiresNewer = TRUE

\* C32: updateFromDownload with an installationStatus that is none of
\* ALREADY_INSTALLED, NEEDS_UPDATE, SAME_VERSION and OLDER_VERSION leaves the
\* three pending sets as they were and triggers nothing; with one of the four
\* it stores the result (keepFile false when it was not given) under
\* result.name, leaves the other updates and the disable set as they were,
\* and triggers statusChange for that id once.
C32_DownloadStatusFrame ==
    [][lastOp'.op = "updateFromDownload" =>
         LET r == lastOp'.result
         IN  IF r.installationStatus \in
                   {"ALREADY_INSTALLED", "NEEDS_UPDATE", "SAME_VERSION", "OLDER_VERSION"}
             THEN /\ r.name \in DOMAIN idsToUpdate'
                  /\ idsToUpdate'[r.name] = [r EXCEPT !.keepFile = (r.keepFile = "true")]
                  /\ \A other \in Ids \ {r.name} :
                        /\ (other \in DOMAIN idsToUpdate') = (other \in DOMAIN idsToUpdate)
                        /\ other \in DOMAIN idsToUpdate => idsToUpdate'[other] = idsToUpdate[other]
                  /\ idsToDisable' = idsToDisable
                  /\ emitted' = << <<"statusChange", r.name>> >>
             ELSE /\ idsToRemove' = idsToRemove
                  /\ idsToDisable' = idsToDisable
                  /\ idsToUpdate' = idsToUpdate
                  /\ emitted' = <<>>]_vars

\* C32 witness: a download with status INSTALLED of an id marked for removal
\* and for disabling, next to a pending update, left all three as they were.
C32_Witness ==
    /\ lastOp.op = "updateFromDownload"
    /\ lastOp.arg = "INSTALLED"
    /\ lastOp.id \in idsToRemove
    /\ lastOp.id \in idsToDisable
    /\ DOMAIN idsToUpdate # {}
    /\ emitted = <<>>

\* The pending update of id has a package file that is not to be kept.
HasDisposableFile(id) ==
    /\ id \in DOMAIN idsToUpdate
    /\ idsToUpdate[id].localPath # ""
    /\ idsToUpdate[id].keepFile = FALSE

\* C33: removeUpdate(id) on an id marked for update drops its descriptor,
\* leaves the other pending updates as they were, and asks for the deletion
\* of its package file exactly when the descriptor has a local path and
\* keepFile is false; on an id that is not marked it changes none of the
\* pending sets, deletes nothing and triggers nothing.
C33_RemoveUpdateDeletesFile ==
    [][lastOp'.op = "removeUpdate" =>
         LET id == lastOp'.id
         IN  IF id \in DOMAIN idsToUpdate
             THEN /\ DOMAIN idsToUpdate' = DOMAIN idsToUpdate \ {id}
                  /\ \A other \in DOMAIN idsToUpdate' : idsToUpdate'[other] = idsToUpdate[other]
                  /\ unlinked' = IF HasDisposableFile(id) THEN {PackagePath(id)} ELSE {}
             ELSE /\ idsToUpdate' = idsToUpdate
                  /\ idsToRemove' = idsToRemove
                  /\ idsToDisable' = idsToDisable
                  /\ unlinked' = {}
                  /\ emitted' = <<>>]_vars

\* C33 witness: the update of an id was removed and its file kept because
\* keepFile was set, while the other id's update stayed pending.
C33_Witness ==
    /\ lastOp.op = "removeUpdate"
    /\ lastOp.arg = TRUE
    /\ lastOp.id \notin DOMAIN idsToUpdate
    /\ DOMAIN idsToUpdate # {}
    /\ unlinked = {}
    /\ emitted = << <<"statusChange", lastOp.id>> >>

\* C34: cleanupUpdates asks for the deletion of the package file of every
\* pending update with a local path and keepFile false and of no other file,
\* leaves the update map empty and the remove and disable sets as they were.
C34_CleanupDeletesFiles ==
    [][lastOp'.op = "cleanupUpdates" =>
         /\ unlinked' = {PackagePath(id) : id \in {x \in Ids : HasDisposableFile(x)}}
         /\ DOMAIN idsToUpdate' = {}
         /\ idsToRemove' = idsToRemove
         /\ idsToDisable' = idsToDisable]_vars

\* C34 witness: cleanupUpdates ran with two updates pending, one with a file
\* to delete and one with a file to keep, and an id marked for removal.
C34_Witness ==
    /\ lastOp.op = "cleanupUpdates"
    /\ unlinked = {PackagePath("a")}
    /\ DOMAIN idsToUpdate = {}
    /\ idsToRemove # {}
    /\ idsToDisable # {}

\* The id of an item still has an install side, of an older version than the
\* item's registryVersion.
StillOutdated(updateInfo) ==
    /\ HasInstallInfo(updateInfo.id)
    /\ "version" \in DOMAIN extensions[updateInfo.id].installInfo.metadata
    /\ semver_lt(extensions[updateInfo.id].installInfo.metadata.version,
                 updateInfo.registryVersion)

\* The items of a list that are still outdated, in the order of the list.
RECURSIVE OutdatedOf(_)
OutdatedOf(updates) ==
    IF updates = <<>> THEN <<>>
    ELSE (IF StillOutdated(Head(updates)) THEN <<Head(updates)>> ELSE <<>>)
            \o OutdatedOf(Tail(updates))

\* C35: cleanAvailableUpdates returns, in the order of its input, exactly the
\* items whose id still has an install side with a version lower than the
\* item's registryVersion; called again on its own result with the map as it
\* was, it returns the same list.
C35_CleanKeepsOutdated ==
    /\ [](lastOp.op = "cleanAvailableUpdates" =>
            /\ lastOp.result.threw = ""
            /\ lastOp.result.list = OutdatedOf(lastOp.updates))
    /\ [][(/\ lastOp.op = "cleanAvailableUpdates"
           /\ lastOp'.op = "cleanAvailableUpdates"
           /\ lastOp.result.threw = ""
           /\ lastOp'.updates = lastOp.result.list
           /\ extensions' = extensions)
          => lastOp'.result = lastOp.result]_vars

\* The part of C35 that holds: on lists whose ids are all installed with a
\* version, or not installed at all.
C35_CleanKeepsOutdatedVersioned ==
    (/\ lastOp.op = "cleanAvailableUpdates"
     /\ \A i \in 1..Len(lastOp.updates) :
           HasInstallInfo(lastOp.updates[i].id) =>
              "version" \in DOMAIN extensions[lastOp.updates[i].id].installInfo.metadata)
    => /\ lastOp.result.threw = ""
       /\ lastOp.result.list = OutdatedOf(lastOp.updates)

\* A registry without the fields the popularity pass adds to its records.
WithoutPopularity(registry) ==
    [id \in DOMAIN registry |->
       [k \in DOMAIN registry[id] \ {"totalDownloads", "gihubStars"} |-> registry[id][k]]]

\* The popularity write of flight f settles in this step, after the download
\* of the same flight was stored under the persisted version and cached.
PopularityWriteAfterDownload(f) ==
    /\ flights[f].patch = "write"
    /\ flights'[f].patch = "done"
    /\ flights[f].download = "done"
    /\ storedVersion = StoredString(flights[f].newVersion)
    /\ cacheFile = JSON_stringify(flights[f].registry)

\* C36: when the popularity pass of a flight finishes after the flight's
\* download was cached, the cache still holds the registry downloaded for the
\* stored version, the popularity fields apart.
C36_PopularityKeepsDownload ==
    [][\A f \in Flights :
         PopularityWriteAfterDownload(f) =>
            WithoutPopularity(JSON_parse(cacheFile')) = WithoutPopularity(flights[f].registry)]_vars

\* C37: whenever the success handler of a remove, enable or disable call
\* runs, the entry of its id still has its install side, and the handler
\* settles the promise of its call.
C37_HandlersFindInstallSide ==
    [][lastOp'.op \in {"remove.done", "enable.done", "disable.done"} =>
         /\ HasInstallInfo(lastOp'.id)
         /\ lastOp'.result = "resolved"]_vars

\* C38: with every callback delivered, the promise of every flight that a
\* downloadRegistry call started is eventually resolved or rejected.
C38_PromiseSettles ==
    \A f \in Flights :
        (flights[f].started /\ flights[f].promise = "pending")
            ~> (flights[f].promise # "pending")

\* The cache-presentation timer of flight f runs in this step.
TimerStep(f) == flights[f].timer = "scheduled" /\ flights'[f].timer # "scheduled"

\* The bundled-snapshot load of flight f is answered in this step.
LocalStep(f) == flights[f].local = "loading" /\ flights'[f].local # "loading"

\* C39: the timer and the bundled-snapshot load of a flight settle no promise
\* but that flight's own, and the timer never runs on a cleared
\* pendingDownloadRegistry.
C39_OwnFlightOnly ==
    [][\A f \in Flights :
         (TimerStep(f) \/ LocalStep(f)) =>
            /\ \A g \in Flights \ {f} : flights'[g].promise = flights[g].promise
            /\ TimerStep(f) => pendingDownloadRegistry # 0]_vars

\* C40: in every entry with both sides, the install side and the registry
\* side carry the same updateAvailable and the same updateCompatible,
\* updateCompatible implies updateAvailable, and under updateCompatible both
\* sides carry a lastCompatibleVersion newer than the installed version.
C40_ReconciledFlags ==
    \A id \in DOMAIN extensions :
        (Present(extensions[id].installInfo) /\ Present(extensions[id].registryInfo)) =>
            LET installInfo == extensions[id].installInfo
                registryInfo == extensions[id].registryInfo
            IN  /\ installInfo.updateAvailable = registryInfo.updateAvailable
                /\ installInfo.updateCompatible = registryInfo.updateCompatible
                /\ registryInfo.updateCompatible =>
                      /\ registryInfo.updateAvailable
                      /\ semver_lt(installInfo.metadata.version, registryInfo.lastCompatibleVersion)
                      /\ semver_lt(installInfo.metadata.version, installInfo.lastCompatibleVersion)

\* C40 witness: "a" has a compatible update to 1.2.0 and was then loaded
\* again at 2.0.0, which leaves no update, while "b" has an update that is
\* not compatible.
C40_Witness ==
    /\ HasInstallInfo("a") /\ HasRegistryInfo("a")
    /\ HasInstallInfo("b") /\ HasRegistryInfo("b")
    /\ "version" \in DOMAIN extensions["a"].installInfo.metadata
    /\ extensions["a"].installInfo.metadata.version = <<2, 0, 0>>
    /\ extensions["a"].registryInfo.updateAvailable = FALSE
    /\ "lastCompatibleVersion" \in DOMAIN extensions["a"].registryInfo
    /\ extensions["b"].registryInfo.updateAvailable
    /\ ~extensions["b"].registryInfo.updateCompatible

====
